---- MODULE Spec2Model ----
(***************************************************************************)
(* The linear-phase FIR crossover of the Crossover plugin                  *)
(* (plugins/crossover/src/crossover/fir.rs) and the part of the plugin     *)
(* (plugins/crossover/src/lib.rs) that drives it.                          *)
(*                                                                         *)
(* f32 values are modelled in exact arithmetic: a value v is the integer   *)
(* v * ONE.  An f32x2 is a pair <<left, right>> with lane-wise operations. *)
(* Rounding of f32 arithmetic is outside the model.                        *)
(***************************************************************************)
EXTENDS Integers, Sequences, FiniteSets, TLC

\* ------------------------------------------------------------------------
\* Program constants
\* ------------------------------------------------------------------------
NUM_BANDS == 5
FILTER_SIZE == 121

RECURSIVE NextPow2From(_, _)
NextPow2From(p, n) == IF p >= n THEN p ELSE NextPow2From(2 * p, n)
next_power_of_two(n) == NextPow2From(1, n)

RING_BUFFER_SIZE == next_power_of_two(FILTER_SIZE)
CENTER_IDX == FILTER_SIZE \div 2

\* The fixed-point unit: the integer that stands for the f32 value 1.0.  It
\* is a common multiple of the normalisation divisors of all kernels the
\* designer produces here and of the window resolution, so every quotient
\* the designer forms is exact (see ExactArithmetic).
ONE == 220032

\* ------------------------------------------------------------------------
\* Bounds of the exploration
\* ------------------------------------------------------------------------
MaxCalls == 2
MaxStream == 130
MaxHostEvents == 5
MaxReplayCalls == 24
MaxContractCalls == 2
MaxRetuneStream == 64
MaxRetunes == 3
MaxRaceStores == 2
MaxRaceCalls == 3
MaxPeriodSize == 2
MaxChannels == 2
MaxInputCallbacks == 2
MaxOutputCallbacks == 2
MaxVariants == 3
MaxIndex == 5
MaxSpawns == 4
MaxBlockLen == 2
SmoothingSteps == 2

\* ------------------------------------------------------------------------
\* f32 and f32x2 arithmetic (exact)
\* ------------------------------------------------------------------------
Abs(x) == IF x < 0 THEN -x ELSE x
Min(a, b) == IF a <= b THEN a ELSE b

RECURSIVE GCD(_, _)
GCD(a, b) == IF b = 0 THEN Abs(a) ELSE GCD(b, a % b)

\* a * b for fixed-point a, b.  The product is formed without an
\* intermediate a * b when one factor is a whole number.
FMul(a, b) ==
    IF b % ONE = 0 THEN a * (b \div ONE)
    ELSE IF a % ONE = 0 THEN (a \div ONE) * b
    ELSE (a * b) \div ONE

\* a * (1 / s), the product with f32::recip(s), s # 0.
FMulRecip(a, s) ==
    LET g  == GCD(a, s)
        sr == Abs(s) \div g
        ar == (IF s < 0 THEN -a ELSE a) \div g
    IN  IF ONE % sr = 0 THEN ar * (ONE \div sr) ELSE (ar * ONE) \div sr

\* v itself, evaluated once here (a function is then held as its table of
\* values instead of being recomputed at every application)
Value(v) == CHOOSE w \in {v} : w = w

splat(x) == <<x, x>>
Zero2 == splat(0)
PAdd(a, b) == <<a[1] + b[1], a[2] + b[2]>>
PSub(a, b) == <<a[1] - b[1], a[2] - b[2]>>
PNeg(a) == <<-a[1], -a[2]>>
\* (variant: the second lane is multiplied by the first lane of b)
PMulCrossed(a, b) == <<FMul(a[1], b[1]), FMul(a[2], b[1])>>
PMul(a, b) == <<FMul(a[1], b[1]), FMul(a[2], b[2])>>
PMulRecip(a, s) == <<FMulRecip(a[1], s[1]), FMulRecip(a[2], s[2])>>
\* f32x2::mul_add: self * a + b
mul_add(self, a, b) == PAdd(PMul(self, a), b)

TapIdx == 0 .. (FILTER_SIZE - 1)
RingIdx == 0 .. (RING_BUFFER_SIZE - 1)
BandIdx == 0 .. (NUM_BANDS - 1)

\* ------------------------------------------------------------------------
\* The biquad collaborator (crossover/iir/biquad.rs)
\* ------------------------------------------------------------------------
SampleRates == {48000, 96000}
Frequencies == {200, 1000, 5000, 10000}

\* Biquad coefficients as whole numbers <<b0, b1, b2, a1, a2>>; a longer
\* impulse response stands for a lower cutoff relative to the sample rate.
BiquadShape(sample_rate, frequency) ==
    LET ratio == sample_rate \div frequency
    IN  IF ratio >= 96 THEN <<1, 0, 0, -1, 0>>
        ELSE IF ratio >= 19 THEN <<1, 2, 1, 0, 0>>
        ELSE IF ratio >= 9 THEN <<1, 1, 0, 0, 0>>
        ELSE <<1, 1, 1, 0, 0>>

\* BiquadCoefficients::lowpass(sample_rate, frequency, NEUTRAL_Q)
BiquadCoefficients_lowpass(sample_rate, frequency) ==
    LET c == BiquadShape(sample_rate, frequency)
    IN  [b0 |-> splat(c[1] * ONE), b1 |-> splat(c[2] * ONE),
         b2 |-> splat(c[3] * ONE), a1 |-> splat(c[4] * ONE),
         a2 |-> splat(c[5] * ONE)]

\* Biquad::default() with the coefficients assigned, and Biquad::reset()
BiquadWith(coefs) == [coefficients |-> coefs, s1 |-> Zero2, s2 |-> Zero2]
BiquadReset(biquad) == [biquad EXCEPT !.s1 = Zero2, !.s2 = Zero2]

\* Biquad::process: transposed direct form II
BiquadProcess(biquad, sample) ==
    LET c == biquad.coefficients
        result == PAdd(PMul(c.b0, sample), biquad.s1)
    IN  [biquad |-> [biquad EXCEPT
                       !.s1 = PAdd(PSub(PMul(c.b1, sample), PMul(c.a1, result)),
                                   biquad.s2),
                       !.s2 = PSub(PMul(c.b2, sample), PMul(c.a2, result))],
         result |-> result]

\* ------------------------------------------------------------------------
\* FirCoefficients
\* ------------------------------------------------------------------------
\* The Blackman weight 0.42 - 0.5 cos(2 pi idx / (N - 1)) + 0.08 cos(4 pi idx
\* / (N - 1)) for N = FILTER_SIZE, in steps of 1/32, listed by the distance of
\* idx from the centre (the weight is symmetric about the centre).
BlackmanTable ==
    << 32, 32, 32, 32, 31, 31, 31, 30, 30, 29, 29, 28, 27, 26, 26, 25,
       24, 23, 22, 21, 20, 19, 18, 17, 16, 15, 14, 14, 13, 12, 11, 10,
       9, 9, 8, 7, 6, 6, 5, 5, 4, 4, 3, 3, 2, 2, 2, 2,
       1, 1, 1, 1, 1, 0, 0, 0, 0, 0, 0, 0, 0 >>
BlackmanWeight(sample_idx) ==
    BlackmanTable[Abs(sample_idx - CENTER_IDX) + 1] * (ONE \div 32)

\* (variant: the 1.0 at tap 0, no delay)
FirCoefficientsImpulseAtStart ==
    [k \in TapIdx |-> IF k = 0 THEN splat(ONE) ELSE Zero2]
\* FirCoefficients::default(): a delay of FILTER_SIZE / 2 samples
FirCoefficientsDefault ==
    [k \in TapIdx |-> IF k = FILTER_SIZE \div 2 THEN splat(ONE) ELSE Zero2]

\* `for sample in ir.iter_mut().skip(from)` and its `.rev()`, filtering in
\* place.  st = [ir, biquad]; iteration p (counted from 0) visits index
\* first + p * step, step being 1 or -1.  Iterations lo..hi are run in order:
\* the first half, then the second half from the state the first half left
\* (the range is split in halves only to keep the evaluation shallow).
FilterStep(st, i) ==
    LET r == BiquadProcess(st.biquad, st.ir[i])
    IN  [ir |-> [st.ir EXCEPT ![i] = r.result], biquad |-> r.biquad]

RECURSIVE FilterIterations(_, _, _, _, _)
FilterIterations(st, first, step, lo, hi) ==
    IF lo > hi THEN st
    ELSE IF lo = hi THEN FilterStep(st, first + lo * step)
    ELSE LET mid == (lo + hi) \div 2
         IN  CHOOSE done \in
                 { FilterIterations(left, first, step, mid + 1, hi) :
                     left \in {FilterIterations(st, first, step, lo, mid)} } : TRUE

FilterInPlace(ir, biquad, first, last, step) ==
    FilterIterations(Value([ir |-> ir, biquad |-> biquad]), first, step,
                     0, Abs(last - first)).ir

\* The sum of ir[lo..hi], both inclusive
RECURSIVE SumRange(_, _, _)
SumRange(ir, lo, hi) ==
    IF lo > hi THEN Zero2
    ELSE IF lo = hi THEN ir[lo]
    ELSE LET mid == (lo + hi) \div 2
         IN  PAdd(SumRange(ir, lo, mid), SumRange(ir, mid + 1, hi))

\* impulse_response.iter().skip(from).sum()
SumFrom(ir, from) == SumRange(ir, from, FILTER_SIZE - 1)

\* (variant: the targets start one below, at 58)
MirrorTargetOneBelow(source_idx) == CENTER_IDX - 1 - (source_idx - CENTER_IDX)
\* The mirror loop `for source_idx in CENTER_IDX + 1..len`: every target lies
\* below CENTER_IDX and every source above it, so no iteration reads what an
\* earlier one wrote and the loop is the simultaneous assignment below.
MirrorTarget(source_idx) == CENTER_IDX - (source_idx - CENTER_IDX)
MirrorFrom(ir, first_source) ==
    [k \in TapIdx |->
        IF \E source_idx \in first_source .. (FILTER_SIZE - 1) :
               MirrorTarget(source_idx) = k
        THEN ir[CHOOSE source_idx \in first_source .. (FILTER_SIZE - 1) :
                    MirrorTarget(source_idx) = k]
        ELSE ir[k]]

\* The impulse response after the two filtering passes and the window
WindowedImpulseResponse(biquad_coefs) ==
    LET impulse == [k \in TapIdx |-> IF k = CENTER_IDX THEN splat(ONE) ELSE Zero2]
        biquad == BiquadWith(biquad_coefs)
        forward == FilterInPlace(impulse, biquad, CENTER_IDX - 1,
                                 FILTER_SIZE - 1, 1)
        backward == FilterInPlace(forward, BiquadReset(biquad),
                                  FILTER_SIZE - 1, CENTER_IDX - 1, -1)
    IN  [k \in TapIdx |->
            IF k >= CENTER_IDX - 1
            THEN PMul(backward[k], splat(BlackmanWeight(k)))
            ELSE backward[k]]

\* (variant: the centre tap is counted twice)
would_be_impulse_response_sum_doubled(impulse_response) ==
    PMul(SumFrom(impulse_response, CENTER_IDX), splat(2 * ONE))
\* The divisor of the normalisation: twice the sum of the right half, centre
\* included, minus the centre
would_be_impulse_response_sum(impulse_response) ==
    PSub(PMul(SumFrom(impulse_response, CENTER_IDX), splat(2 * ONE)),
         impulse_response[CENTER_IDX])

\* FirCoefficients::design_fourth_order_linear_phase_low_pass_from_biquad
design_fourth_order_linear_phase_low_pass_from_biquad(biquad_coefs) ==
    LET windowed == WindowedImpulseResponse(biquad_coefs)
        total == would_be_impulse_response_sum(windowed)
        normalized == [k \in TapIdx |-> PMulRecip(windowed[k], total)]
    IN  Value(MirrorFrom(Value(normalized), CENTER_IDX + 1))

\* The kernels update() can design, computed once per (sample rate, frequency)
LowPassKernel ==
    [sample_rate \in SampleRates, frequency \in Frequencies |->
        design_fourth_order_linear_phase_low_pass_from_biquad(
            BiquadCoefficients_lowpass(sample_rate, frequency))]

\* ------------------------------------------------------------------------
\* FirFilter
\* ------------------------------------------------------------------------
FirFilterDefault ==
    [coefficients |-> FirCoefficientsDefault,
     delay_buffer |-> [j \in RingIdx |-> Zero2],
     delay_buffer_next_idx |-> 0]

\* (variant: plain subtraction, which falls below zero)
plain_sub(a, b) == a - b
saturating_sub(a, b) == IF a >= b THEN a - b ELSE 0

\* The index computations of FirFilter::process for a cursor, each as the
\* mathematical integer its expression denotes: a usize computation
\* underflows where the value here is negative.
\* unused_coefficients is coefficients.len() - num_before_wraparound.
ProcessIndices(delay_buffer_next_idx) ==
    CHOOSE ix \in
        { [before_wraparound_start_idx |-> start,
           before_wraparound_end_idx |-> delay_buffer_next_idx,
           num_before_wraparound |-> delay_buffer_next_idx - start,
           unused_coefficients |->
               FILTER_SIZE - (delay_buffer_next_idx - start),
           after_wraparound_begin_idx |->
               RING_BUFFER_SIZE
                   - (FILTER_SIZE - (delay_buffer_next_idx - start)),
           after_wraparound_end_idx |-> RING_BUFFER_SIZE] :
            start \in {saturating_sub(delay_buffer_next_idx,
                                      FILTER_SIZE - 1)} } : TRUE

\* The pairs <<coefficient index, delay buffer index>> the two loops of
\* FirFilter::process visit: zip() of a coefficient slice with a reversed
\* delay buffer slice stops with the shorter of the two
ZipPairs(c_start, c_end, b_start, b_end) ==
    { <<c_start + j, b_end - 1 - j>> :
        j \in 0 .. Min(c_end - c_start, b_end - b_start) - 1 }
BeforePairs(ix) ==
    ZipPairs(1, 1 + ix.num_before_wraparound,
             ix.before_wraparound_start_idx, ix.before_wraparound_end_idx)
AfterPairs(ix) ==
    ZipPairs(1 + ix.num_before_wraparound, FILTER_SIZE,
             ix.after_wraparound_begin_idx, ix.after_wraparound_end_idx)

\* The multiply-adds of iterations lo..hi of
\*   for (coefficient, delayed_sample) in
\*       coefficients[c_start..].iter().zip(delay_buffer[..b_end].iter().rev())
\* iteration j pairing coefficients[c_start + j] with delay_buffer[b_end-1-j].
RECURSIVE ZipMulAdd(_, _, _, _, _, _)
ZipMulAdd(coefficients, c_start, delay_buffer, b_end, lo, hi) ==
    IF lo > hi THEN Zero2
    ELSE IF lo = hi
         THEN PMul(coefficients[c_start + lo], delay_buffer[b_end - 1 - lo])
    ELSE LET mid == (lo + hi) \div 2
         IN  PAdd(ZipMulAdd(coefficients, c_start, delay_buffer, b_end, lo, mid),
                  ZipMulAdd(coefficients, c_start, delay_buffer, b_end, mid + 1, hi))

\* zip() of the slices coefficients[c_start..c_end] and
\* delay_buffer[b_start..b_end] reversed stops with the shorter of the two.
ZipSlices(coefficients, c_start, c_end, delay_buffer, b_start, b_end) ==
    ZipMulAdd(coefficients, c_start, delay_buffer, b_end,
              0, Min(c_end - c_start, b_end - b_start) - 1)

\* (variant: the cursor is advanced without wrapping)
FirFilterProcessUnwrapped(self, samples) ==
    LET coefficients == self.coefficients
        tap0 == PMul(coefficients[0], samples)
        before_wraparound_start_idx ==
            saturating_sub(self.delay_buffer_next_idx, FILTER_SIZE - 1)
        before_wraparound_end_idx == self.delay_buffer_next_idx
        num_before_wraparound ==
            before_wraparound_end_idx - before_wraparound_start_idx
        before == ZipSlices(coefficients, 1, 1 + num_before_wraparound,
                            self.delay_buffer,
                            before_wraparound_start_idx,
                            before_wraparound_end_idx)
        after_wraparound_begin_idx ==
            RING_BUFFER_SIZE - (FILTER_SIZE - num_before_wraparound)
        after_wraparound_end_idx == RING_BUFFER_SIZE
        after == ZipSlices(coefficients, 1 + num_before_wraparound, FILTER_SIZE,
                           self.delay_buffer,
                           after_wraparound_begin_idx,
                           after_wraparound_end_idx)
    IN  [filter |->
            [self EXCEPT
               !.delay_buffer[self.delay_buffer_next_idx] = samples,
               !.delay_buffer_next_idx = self.delay_buffer_next_idx + 1],
         result |-> PAdd(PAdd(tap0, before), after)]
\* (variant: the slice at the end of the ring buffer is left out)
FirFilterProcessBeforeOnly(self, samples) ==
    LET coefficients == self.coefficients
        tap0 == PMul(coefficients[0], samples)
        before_wraparound_start_idx ==
            saturating_sub(self.delay_buffer_next_idx, FILTER_SIZE - 1)
        before_wraparound_end_idx == self.delay_buffer_next_idx
        num_before_wraparound ==
            before_wraparound_end_idx - before_wraparound_start_idx
        before == ZipSlices(coefficients, 1, 1 + num_before_wraparound,
                            self.delay_buffer,
                            before_wraparound_start_idx,
                            before_wraparound_end_idx)
        after_wraparound_begin_idx ==
            RING_BUFFER_SIZE - (FILTER_SIZE - num_before_wraparound)
        after_wraparound_end_idx == RING_BUFFER_SIZE
        after == ZipSlices(coefficients, 1 + num_before_wraparound, FILTER_SIZE,
                           self.delay_buffer,
                           after_wraparound_begin_idx,
                           after_wraparound_end_idx)
    IN  [filter |->
            [self EXCEPT
               !.delay_buffer[self.delay_buffer_next_idx] = samples,
               !.delay_buffer_next_idx =
                   (self.delay_buffer_next_idx + 1) % RING_BUFFER_SIZE],
         result |-> PAdd(tap0, before)]
\* FirFilter::process: the filter after the call and the returned pair
FirFilterProcess(self, samples) ==
    LET coefficients == self.coefficients
        tap0 == PMul(coefficients[0], samples)
        before_wraparound_start_idx ==
            saturating_sub(self.delay_buffer_next_idx, FILTER_SIZE - 1)
        before_wraparound_end_idx == self.delay_buffer_next_idx
        num_before_wraparound ==
            before_wraparound_end_idx - before_wraparound_start_idx
        before == ZipSlices(coefficients, 1, 1 + num_before_wraparound,
                            self.delay_buffer,
                            before_wraparound_start_idx,
                            before_wraparound_end_idx)
        after_wraparound_begin_idx ==
            RING_BUFFER_SIZE - (FILTER_SIZE - num_before_wraparound)
        after_wraparound_end_idx == RING_BUFFER_SIZE
        after == ZipSlices(coefficients, 1 + num_before_wraparound, FILTER_SIZE,
                           self.delay_buffer,
                           after_wraparound_begin_idx,
                           after_wraparound_end_idx)
    IN  [filter |->
            [self EXCEPT
               !.delay_buffer[self.delay_buffer_next_idx] = samples,
               !.delay_buffer_next_idx =
                   (self.delay_buffer_next_idx + 1) % RING_BUFFER_SIZE],
         result |-> PAdd(PAdd(tap0, before), after)]

\* (variant: the delay line keeps its entries)
FirFilterResetCursorOnly(self) ==
    [self EXCEPT !.delay_buffer_next_idx = 0]
\* (variant: the cursor stays where it is)
FirFilterResetKeepingCursor(self) ==
    [self EXCEPT !.delay_buffer = [j \in RingIdx |-> Zero2]]
\* FirFilter::reset
FirFilterReset(self) ==
    [self EXCEPT !.delay_buffer = [j \in RingIdx |-> Zero2],
                 !.delay_buffer_next_idx = 0]

\* ------------------------------------------------------------------------
\* FirCrossover
\* ------------------------------------------------------------------------
BandCounts == 2 .. NUM_BANDS

\* FirCrossover::new
FirCrossoverNew(new_mode) ==
    [mode |-> new_mode, band_filters |-> [i \in BandIdx |-> FirFilterDefault]]

\* (variant: half the ring buffer instead of half the kernel)
latency_of_ring(self_mode) ==
    CASE self_mode = "LinkwitzRiley24LinearPhase" -> RING_BUFFER_SIZE \div 2
\* FirCrossover::latency
latency(self_mode) ==
    CASE self_mode = "LinkwitzRiley24LinearPhase" -> FILTER_SIZE \div 2

\* (variant: every slot is processed and written, whatever num_bands)
FirCrossoverProcessAllSlots(filters, outputs, num_bands, samples) ==
    LET active == BandIdx
        processed ==
            Value([i \in active |-> FirFilterProcess(filters[i], samples)])
    IN  [band_filters |->
            [i \in BandIdx |->
                IF i \in active THEN processed[i].filter ELSE filters[i]],
         band_outputs |->
            [i \in BandIdx |->
                IF i \in active THEN processed[i].result ELSE outputs[i]],
         main_io |-> samples]
\* FirCrossover::process: the filters, the output slots and the input pair
\* after the call.  zip(band_filters, band_outputs).take(num_bands) visits the
\* slots below num_bands.
FirCrossoverProcess(filters, outputs, num_bands, samples) ==
    LET active == {i \in BandIdx : i < num_bands}
        processed ==
            Value([i \in active |-> FirFilterProcess(filters[i], samples)])
    IN  [band_filters |->
            [i \in BandIdx |->
                IF i \in active THEN processed[i].filter ELSE filters[i]],
         band_outputs |->
            [i \in BandIdx |->
                IF i \in active THEN processed[i].result ELSE outputs[i]],
         main_io |-> samples]

\* (variant: a band whose crossover lies below the one before it is left
\* silent)
BandPassStepDroppingNegative(st, sample_rate, frequencies, i) ==
    CHOOSE next \in
        { [filters |-> [st.filters EXCEPT ![i].coefficients =
                           IF i > 0 /\ frequencies[i + 1] < frequencies[i]
                           THEN [k \in TapIdx |-> Zero2] ELSE fir_bp_coefs],
           accumulated_ir |->
               [k \in TapIdx |-> PAdd(st.accumulated_ir[k], fir_bp_coefs[k])],
           written |-> st.written \cup {i}] :
            fir_bp_coefs \in
                { [k \in TapIdx |->
                      PSub(LowPassKernel[sample_rate, frequencies[i + 1]][k],
                           st.accumulated_ir[k])] } } : TRUE
\* (variant: accumulated_ir is overwritten with the band-pass kernel)
BandPassStepOverwritingSum(st, sample_rate, frequencies, i) ==
    CHOOSE next \in
        { [filters |-> [st.filters EXCEPT ![i].coefficients = fir_bp_coefs],
           accumulated_ir |-> fir_bp_coefs,
           written |-> st.written \cup {i}] :
            fir_bp_coefs \in
                { [k \in TapIdx |->
                      PSub(LowPassKernel[sample_rate, frequencies[i + 1]][k],
                           st.accumulated_ir[k])] } } : TRUE
\* (variant: the band-pass kernel is not added to accumulated_ir)
BandPassStepKeepingSum(st, sample_rate, frequencies, i) ==
    CHOOSE next \in
        { [filters |-> [st.filters EXCEPT ![i].coefficients = fir_bp_coefs],
           accumulated_ir |-> st.accumulated_ir,
           written |-> st.written \cup {i}] :
            fir_bp_coefs \in
                { [k \in TapIdx |->
                      PSub(LowPassKernel[sample_rate, frequencies[i + 1]][k],
                           st.accumulated_ir[k])] } } : TRUE
\* One iteration of the band-pass loop of update(), for the pair
\* (frequencies[i], band_filters[i]); st = [filters, accumulated_ir, written].
\* fir_bp_coefs is the low-pass kernel of the frequency minus accumulated_ir.
BandPassStep(st, sample_rate, frequencies, i) ==
    CHOOSE next \in
        { [filters |-> [st.filters EXCEPT ![i].coefficients = fir_bp_coefs],
           accumulated_ir |->
               [k \in TapIdx |-> PAdd(st.accumulated_ir[k], fir_bp_coefs[k])],
           written |-> st.written \cup {i}] :
            fir_bp_coefs \in
                { [k \in TapIdx |->
                      PSub(LowPassKernel[sample_rate, frequencies[i + 1]][k],
                           st.accumulated_ir[k])] } } : TRUE

\* Iterations i..last-1 of the band-pass loop
RECURSIVE BandPassLoop(_, _, _, _, _)
BandPassLoop(st, sample_rate, frequencies, i, last) ==
    IF i >= last THEN st
    ELSE CHOOSE done \in
             { BandPassLoop(next, sample_rate, frequencies, i + 1, last) :
                 next \in {BandPassStep(st, sample_rate, frequencies, i)} } : TRUE

\* (variant: the negated sum without the impulse at the centre)
fir_hp_coefs_without_impulse(accumulated_ir) ==
    [k \in TapIdx |-> PNeg(accumulated_ir[k])]
\* The high-pass kernel by spectral inversion of the accumulated kernel
fir_hp_coefs(accumulated_ir) ==
    [k \in TapIdx |->
        IF k = FILTER_SIZE \div 2
        THEN PAdd(PNeg(accumulated_ir[k]), splat(ONE))
        ELSE PNeg(accumulated_ir[k])]

\* (variant: the kernels are written into newly constructed filters)
FirCrossoverUpdateRebuilding(filters, sample_rate, num_bands, frequencies) ==
    CHOOSE result \in
        { [band_filters |->
               [looped.filters EXCEPT ![num_bands - 1].coefficients =
                                          fir_hp_coefs(looped.accumulated_ir)],
           written |-> looped.written \cup {num_bands - 1}] :
            looped \in
                { BandPassLoop(start, sample_rate, frequencies,
                               1, Min(num_bands - 1, NUM_BANDS - 1)) :
                    start \in
                        { [filters |->
                               [i \in BandIdx |->
                                   IF i = 0
                                   THEN [FirFilterDefault EXCEPT
                                           !.coefficients = lp_fir_coefs]
                                   ELSE [FirFilterDefault EXCEPT
                                           !.coefficients =
                                               filters[i].coefficients]],
                           accumulated_ir |-> lp_fir_coefs,
                           written |-> {0}] :
                            lp_fir_coefs \in
                                {LowPassKernel[sample_rate, frequencies[1]]} } }
        } : TRUE
\* (variant: the band-pass loop takes num_bands crossovers instead of
\* num_bands - 1)
FirCrossoverUpdateOneMoreCrossover(filters, sample_rate, num_bands, frequencies) ==
    CHOOSE result \in
        { [band_filters |->
               [looped.filters EXCEPT ![num_bands - 1].coefficients =
                                          fir_hp_coefs(looped.accumulated_ir)],
           written |-> looped.written \cup {num_bands - 1}] :
            looped \in
                { BandPassLoop(start, sample_rate, frequencies,
                               1, Min(num_bands, NUM_BANDS - 1)) :
                    start \in
                        { [filters |->
                               [filters EXCEPT ![0].coefficients = lp_fir_coefs],
                           accumulated_ir |-> lp_fir_coefs,
                           written |-> {0}] :
                            lp_fir_coefs \in
                                {LowPassKernel[sample_rate, frequencies[1]]} } }
        } : TRUE
\* (variant: the high-pass kernel inverts the first low-pass kernel instead
\* of the accumulated response)
FirCrossoverUpdateInvertingFirst(filters, sample_rate, num_bands, frequencies) ==
    CHOOSE result \in
        { [band_filters |->
               [looped.filters EXCEPT ![num_bands - 1].coefficients =
                   fir_hp_coefs(LowPassKernel[sample_rate, frequencies[1]])],
           written |-> looped.written \cup {num_bands - 1}] :
            looped \in
                { BandPassLoop(start, sample_rate, frequencies,
                               1, Min(num_bands - 1, NUM_BANDS - 1)) :
                    start \in
                        { [filters |->
                               [filters EXCEPT ![0].coefficients = lp_fir_coefs],
                           accumulated_ir |-> lp_fir_coefs,
                           written |-> {0}] :
                            lp_fir_coefs \in
                                {LowPassKernel[sample_rate, frequencies[1]]} } }
        } : TRUE
\* (variant: the filters that receive a kernel are reset as well)
FirCrossoverUpdateResetting(filters, sample_rate, num_bands, frequencies) ==
    CHOOSE result \in
        { [band_filters |->
               [i \in BandIdx |->
                   IF i < num_bands
                   THEN [coefficients |->
                             IF i = num_bands - 1
                             THEN fir_hp_coefs(looped.accumulated_ir)
                             ELSE looped.filters[i].coefficients,
                         delay_buffer |-> [j \in RingIdx |-> Zero2],
                         delay_buffer_next_idx |-> 0]
                   ELSE looped.filters[i]],
           written |-> looped.written \cup {num_bands - 1}] :
            looped \in
                { BandPassLoop(start, sample_rate, frequencies,
                               1, Min(num_bands - 1, NUM_BANDS - 1)) :
                    start \in
                        { [filters |->
                               [filters EXCEPT ![0].coefficients = lp_fir_coefs],
                           accumulated_ir |-> lp_fir_coefs,
                           written |-> {0}] :
                            lp_fir_coefs \in
                                {LowPassKernel[sample_rate, frequencies[1]]} } }
        } : TRUE
\* (variant: the accumulated response starts from the kernel slot 0 held
\* before the call)
FirCrossoverUpdateFromOldKernel(filters, sample_rate, num_bands, frequencies) ==
    CHOOSE result \in
        { [band_filters |->
               [looped.filters EXCEPT ![num_bands - 1].coefficients =
                                          fir_hp_coefs(looped.accumulated_ir)],
           written |-> looped.written \cup {num_bands - 1}] :
            looped \in
                { BandPassLoop(start, sample_rate, frequencies,
                               1, Min(num_bands - 1, NUM_BANDS - 1)) :
                    start \in
                        { [filters |->
                               [filters EXCEPT ![0].coefficients = lp_fir_coefs],
                           accumulated_ir |-> filters[0].coefficients,
                           written |-> {0}] :
                            lp_fir_coefs \in
                                {LowPassKernel[sample_rate, frequencies[1]]} } }
        } : TRUE
\* (variant: all five slots are written, whatever num_bands)
FirCrossoverUpdateAllSlots(filters, sample_rate, num_bands, frequencies) ==
    CHOOSE result \in
        { [band_filters |->
               [looped.filters EXCEPT ![NUM_BANDS - 1].coefficients =
                                          fir_hp_coefs(looped.accumulated_ir)],
           written |-> looped.written \cup {NUM_BANDS - 1}] :
            looped \in
                { BandPassLoop(start, sample_rate, frequencies,
                               1, NUM_BANDS - 1) :
                    start \in
                        { [filters |->
                               [filters EXCEPT ![0].coefficients = lp_fir_coefs],
                           accumulated_ir |-> lp_fir_coefs,
                           written |-> {0}] :
                            lp_fir_coefs \in
                                {LowPassKernel[sample_rate, frequencies[1]]} } }
        } : TRUE
\* FirCrossover::update: the filters after the call and the set of slots whose
\* coefficients were assigned.  frequencies is the tuple of the four
\* crossover frequencies (frequencies[i + 1] is the source's frequencies[i]).
\* The low-pass kernel of frequencies[0] goes to slot 0 and starts
\* accumulated_ir; zip(frequencies, band_filters).take(num_bands - 1).skip(1)
\* visits the slots 1 .. num_bands - 2; the high-pass kernel goes to slot
\* num_bands - 1.
FirCrossoverUpdate(filters, sample_rate, num_bands, frequencies) ==
    CHOOSE result \in
        { [band_filters |->
               [looped.filters EXCEPT ![num_bands - 1].coefficients =
                                          fir_hp_coefs(looped.accumulated_ir)],
           written |-> looped.written \cup {num_bands - 1}] :
            looped \in
                { BandPassLoop(start, sample_rate, frequencies,
                               1, Min(num_bands - 1, NUM_BANDS - 1)) :
                    start \in
                        { [filters |->
                               [filters EXCEPT ![0].coefficients = lp_fir_coefs],
                           accumulated_ir |-> lp_fir_coefs,
                           written |-> {0}] :
                            lp_fir_coefs \in
                                {LowPassKernel[sample_rate, frequencies[1]]} } }
        } : TRUE

\* nih_debug_assert!(condition): whether the assertion reports a failure.  It
\* is compiled to a check only where debug assertions are enabled.
nih_debug_assert_failed(debug_assertions, condition) ==
    debug_assertions /\ ~condition

\* num_bands - 1 on usize.  Of 0 it panics where overflow checks are compiled
\* in and wraps to usize::MAX where they are not.
usize_sub_one(n, overflow_checks) ==
    IF n > 0 THEN [outcome |-> "value", value |-> n - 1]
    ELSE IF overflow_checks THEN [outcome |-> "panic", value |-> 0]
    ELSE [outcome |-> "wrapped", value |-> 0]

\* Whether an assertion of update() reports a failure
update_assertions(debug_assertions, num_bands) ==
    nih_debug_assert_failed(debug_assertions, num_bands >= 2)
\* Whether an assertion of process() reports a failure
process_assertions(debug_assertions, num_bands) ==
    \/ nih_debug_assert_failed(debug_assertions, num_bands >= 2)
    \/ nih_debug_assert_failed(debug_assertions, num_bands <= NUM_BANDS)

\* FirCrossover::update for any num_bands, in a build with debug assertions
\* and overflow checks (debug_assertions) or without: the filters as the call
\* leaves them, the slots assigned, whether a debug assertion reported a
\* failure, and the panic that ended the call, if any.  Slot 0 is assigned
\* first; take(num_bands - 1) is evaluated next; the zip holds four pairs, of
\* which the first is skipped; band_filters[num_bands - 1] is bounds-checked
\* in every build.
FirCrossoverUpdateAnyBands(filters, sample_rate, num_bands, frequencies, debug_assertions) ==
    CHOOSE result \in
        { IF pred.outcome = "panic"
          THEN [band_filters |-> start.filters, written |-> start.written,
                asserted |-> asserted, panicked |-> "overflow"]
          ELSE CHOOSE finished \in
                   { IF pred.outcome = "value" /\ pred.value \in BandIdx
                     THEN [band_filters |->
                               [looped.filters EXCEPT
                                    ![pred.value].coefficients =
                                        fir_hp_coefs(looped.accumulated_ir)],
                           written |-> looped.written \cup {pred.value},
                           asserted |-> asserted, panicked |-> "no"]
                     ELSE [band_filters |-> looped.filters,
                           written |-> looped.written,
                           asserted |-> asserted, panicked |-> "index"] :
                       looped \in
                           { BandPassLoop(start, sample_rate, frequencies, 1,
                                 IF pred.outcome = "wrapped"
                                 THEN NUM_BANDS - 1
                                 ELSE Min(pred.value, NUM_BANDS - 1)) }
                   } : TRUE :
            pred \in {usize_sub_one(num_bands, debug_assertions)},
            asserted \in {update_assertions(debug_assertions, num_bands)},
            start \in
                { [filters |->
                       [filters EXCEPT ![0].coefficients = lp_fir_coefs],
                   accumulated_ir |-> lp_fir_coefs,
                   written |-> {0}] :
                    lp_fir_coefs \in
                        {LowPassKernel[sample_rate, frequencies[1]]} }
        } : TRUE

\* (variant: every filter is replaced by a newly constructed one)
FirCrossoverResetToNew(filters) == [i \in BandIdx |-> FirFilterDefault]
\* FirCrossover::reset
FirCrossoverReset(filters) == [i \in BandIdx |-> FirFilterReset(filters[i])]

\* ------------------------------------------------------------------------
\* State
\* ------------------------------------------------------------------------
VARIABLES
    mode,            \* FirCrossover::mode
    band_filters,    \* FirCrossover::band_filters
    band_outputs,    \* the five output slots handed to process()
    main_io,         \* the input sample pair handed to process()
    history,         \* per band: the pairs its filter processed since its
                     \* last reset, oldest first
    last_call,       \* the most recent call on the engine and its arguments
    written,         \* the slots whose coefficients the last update() assigned
    update_bands,    \* num_bands of the most recent update(), 0 if none
    calls,           \* number of calls made by the caller
    pulses,          \* number of non-zero input pairs processed
    params,          \* CrossoverParams: the plain parameter values
    smoothers,       \* the smoothers of the four crossover frequencies
    should_update_filters,       \* Crossover::should_update_filters
    sample_rate_cfg, \* Crossover::buffer_config.sample_rate
    latency_samples, \* the latency last reported to the host
    initializations, \* how many times the host has initialized the plugin
    race,            \* a thread that sets parameters while a block is processed
    block,           \* where Plugin::process stands
    iir_update_bands, \* num_bands of the last IirCrossover::update, 0 if none
    cpal,            \* the standalone backend: Cpal::run, its two stream
                     \* callbacks, the ring buffer and the two parkers
    enums,           \* an enum deriving Enum and the latest call on it
    iced,            \* IcedState::open and the editor windows that are open
    design           \* the designer at work: its input, its impulse_response
                     \* and where it stands

engine_vars == <<mode, band_filters, band_outputs, main_io, history, last_call,
                 written, update_bands, pulses, design>>

\* The inputs the exploration draws from
Samples == {Zero2, <<ONE, -2 * ONE>>}
Ascending == <<200, 1000, 5000, 10000>>     \* the plugin's default crossovers
Unordered == <<1000, 1000, 200, 5000>>      \* equal and descending neighbours
UpdateArguments ==
    { <<48000, Ascending>>, <<96000, Ascending>>, <<48000, Unordered>> }

\* What the caller's output buffers hold before the first call: some pair
\* per slot, different from anything a filter returns here
StaleOutputs == [i \in BandIdx |-> <<(i + 1) * ONE + 1, -(i + 1) * ONE - 1>>]

NoArguments ==
    [num_bands |-> 0, sample_rate |-> 0, frequencies |-> << >>,
     samples |-> Zero2]

EngineInit ==
    /\ mode = "LinkwitzRiley24LinearPhase"
    /\ band_filters = FirCrossoverNew(mode).band_filters
    /\ band_outputs = StaleOutputs
    /\ main_io = Zero2
    /\ history = [i \in BandIdx |-> << >>]
    /\ last_call = [op |-> "new"] @@ NoArguments
    /\ written = {}
    /\ update_bands = 0
    /\ pulses = 0
    /\ design = [stage |-> "idle", sample_rate |-> 0, frequency |-> 0,
                 impulse_response |-> [k \in TapIdx |-> Zero2],
                 source_idx |-> 0, scratch |-> Zero2]

\* ------------------------------------------------------------------------
\* The calls on the engine
\* ------------------------------------------------------------------------
Update(sample_rate, num_bands, frequencies) ==
    \E r \in {FirCrossoverUpdate(band_filters, sample_rate, num_bands,
                                 frequencies)} :
        /\ band_filters' = r.band_filters
        /\ written' = r.written
        /\ update_bands' = num_bands
        /\ last_call' = [NoArguments EXCEPT !.num_bands = num_bands,
                                            !.sample_rate = sample_rate,
                                            !.frequencies = frequencies]
                        @@ [op |-> "update"]
        /\ UNCHANGED <<mode, band_outputs, main_io, history, pulses, design>>

Process(num_bands, samples) ==
    \E r \in {FirCrossoverProcess(band_filters, band_outputs, num_bands,
                                  samples)} :
        /\ band_filters' = r.band_filters
        /\ band_outputs' = r.band_outputs
        /\ main_io' = r.main_io
        /\ history' = [i \in BandIdx |->
                          IF i < num_bands THEN Append(history[i], samples)
                          ELSE history[i]]
        /\ last_call' = [NoArguments EXCEPT !.num_bands = num_bands,
                                            !.samples = samples]
                        @@ [op |-> "process"]
        /\ pulses' = IF samples = Zero2 THEN pulses ELSE pulses + 1
        /\ UNCHANGED <<mode, written, update_bands, design>>

Reset ==
    /\ band_filters' = FirCrossoverReset(band_filters)
    /\ history' = [i \in BandIdx |-> << >>]
    /\ last_call' = [op |-> "reset"] @@ NoArguments
    /\ UNCHANGED <<mode, band_outputs, main_io, written, update_bands, pulses,
                   design>>

wrapper_vars == <<cpal, enums, iced>>

plugin_vars == <<params, smoothers, should_update_filters, sample_rate_cfg,
                 latency_samples, initializations, race, block,
                 iir_update_bands, wrapper_vars>>

\* Everything of the crossover plugin and its engine
crossover_vars == <<engine_vars, calls, params, smoothers,
                    should_update_filters, sample_rate_cfg, latency_samples,
                    initializations, race, block, iir_update_bands>>

vars == <<engine_vars, calls, plugin_vars>>

\* ------------------------------------------------------------------------
\* The plugin (lib.rs)
\* ------------------------------------------------------------------------
CrossoverTypes == {"LinkwitzRiley24", "LinkwitzRiley24LinearPhase"}

\* The smoother of a crossover frequency (nih_plug's Smoother): `current` is
\* what next() returned last, `target` the parameter's value, `steps_left`
\* the number of next() calls until current reaches target.
SmootherAt(value) == [current |-> value, target |-> value, steps_left |-> 0]
is_smoothing(smoother) == smoother.steps_left > 0
SmootherSetTarget(smoother, value) ==
    [smoother EXCEPT !.target = value, !.steps_left = SmoothingSteps]
\* Smoother::next: the smoother after the call; its `current` is the result.
\* On the way to the target the value is held and then jumps to the target.
SmootherNext(smoother) ==
    IF smoother.steps_left > 1
    THEN [smoother EXCEPT !.steps_left = @ - 1]
    ELSE [smoother EXCEPT !.steps_left = 0, !.current = smoother.target]

\* The main samples the host hands to Plugin::process
PluginSamples == {<<ONE, -2 * ONE>>}
MainBuffers ==
    UNION { [1 .. len -> PluginSamples] : len \in 1 .. MaxBlockLen }
\* No block is being processed; main is the main buffer of the latest block
Idle == [pc |-> "idle", type |-> "none", left |-> 0, main |-> <<>>]
\* The position in the buffers of the sample frame do_process is working on
FrameIndex == Len(block.main) - block.left + 1

\* The host calls into the plugin between two Plugin::process calls
HostCall ==
    /\ block.pc = "idle"
    /\ calls < MaxHostEvents
    /\ calls' = calls + 1

\* The parameter-setting thread at rest, with no store of true awaiting its
\* update.  setter_pc: "idle", or "stored" between the store of a parameter's
\* value and its callback; param, value: what it stored last; unserved: a
\* callback has stored true and update_filters has not run since; triggered:
\* the parameter and value of the latest callback; due: an unserved store
\* preceded the compare-exchange of the sample being processed; stores: how
\* many values the thread has stored.
NoRace ==
    [setter_pc |-> "idle", param |-> "none", value |-> "none",
     unserved |-> FALSE, triggered |-> [param |-> "none", value |-> "none"],
     due |-> FALSE, stores |-> 0]

\* Crossover::default() around FirCrossover::new
PluginInit ==
    /\ params = [num_bands |-> 2, crossover_type |-> "LinkwitzRiley24"]
    /\ smoothers = [j \in 1 .. (NUM_BANDS - 1) |-> SmootherAt(Ascending[j])]
    /\ should_update_filters = FALSE
    /\ sample_rate_cfg = 1
    /\ latency_samples = 0
    /\ initializations = 0
    /\ race = NoRace
    /\ block = Idle
    /\ iir_update_bands = 0

\* ------------------------------------------------------------------------
\* The standalone backend (cpal.rs)
\* ------------------------------------------------------------------------
\* Cpal::run has not been called.  Captured samples are numbered 1, 2, ... in
\* the order the device delivers them.
NoCpal ==
    [run_pc |-> "new",          \* where Cpal::run stands
     input |-> FALSE,           \* Cpal::input is Some
     input_channels |-> 0,      \* input_config.channels
     output_channels |-> 0,     \* output_config.channels
     period_size |-> 0,         \* config.period_size
     rb |-> << >>,              \* the ring buffer, oldest sample first
     input_token |-> FALSE,     \* the token of input_parker
     token |-> FALSE,           \* the token of parker
     input_cb |-> [pc |-> "idle", data |-> << >>, calls |-> 0,
                   push_failed |-> FALSE],
     output_cb |-> [pc |-> "idle", buffer |-> << >>, calls |-> 0,
                    pop_failed |-> FALSE, data |-> << >>, result |-> TRUE],
     captured |-> 0,            \* samples handed to the input callback so far
     pushed |-> << >>,          \* the samples pushed, in the order of the pushes
     popped |-> << >>,          \* the samples popped, in the order of the pops
     first_period_pushed |-> FALSE, \* the first input callback has unparked
     capture_error |-> FALSE,   \* the capture error callback has run
     playback_error |-> FALSE,  \* the playback error callback has run
     cb_false |-> FALSE,        \* cb has returned false
     num_processed_samples |-> 0]

\* What the output data of a callback holds before the callback writes to it
StaleData == "stale"

\* The capacity RingBuffer::new is given
rb_capacity == cpal.output_channels * cpal.period_size
\* The number of samples in one callback's data, of one period
input_data_len == cpal.input_channels * cpal.period_size
output_data_len == cpal.output_channels * cpal.period_size

\* A step of the backend leaves the crossover alone
CpalStep(next) ==
    /\ cpal' = next
    /\ UNCHANGED <<crossover_vars, enums, iced>>

\* Cpal::new: the devices and stream configurations are chosen.  An input
\* device comes with at least one input channel; without one the number of
\* input channels plays no part.
CpalNew ==
    /\ cpal.run_pc = "new"
    /\ \E input \in BOOLEAN, input_channels \in 0 .. MaxChannels,
          output_channels \in 1 .. MaxChannels,
          period_size \in 1 .. MaxPeriodSize :
        /\ input_channels > 0 <=> input
        /\ CpalStep([cpal EXCEPT !.run_pc = "run", !.input = input,
                                 !.input_channels = input_channels,
                                 !.output_channels = output_channels,
                                 !.period_size = period_size])

\* Cpal::run up to the first park(): with an input device the ring buffer
\* is made and the capture stream is built and started
RunStart ==
    /\ cpal.run_pc = "run"
    /\ CpalStep([cpal EXCEPT !.run_pc = IF cpal.input THEN "input_playing"
                                       ELSE "build_output"])
\* input_parker.park(): returns at once when the token is there, and takes it
RunInputPark ==
    /\ cpal.run_pc = "input_playing"
    /\ CpalStep(IF cpal.input_token
                THEN [cpal EXCEPT !.run_pc = "build_output",
                                  !.input_token = FALSE]
                ELSE [cpal EXCEPT !.run_pc = "input_parked"])
\* the parked thread is woken by the token
RunInputWake ==
    /\ cpal.run_pc = "input_parked"
    /\ cpal.input_token
    /\ CpalStep([cpal EXCEPT !.run_pc = "build_output",
                             !.input_token = FALSE])
\* The output stream is built and started
RunPlayOutput ==
    /\ cpal.run_pc = "build_output"
    /\ CpalStep([cpal EXCEPT !.run_pc = "playing"])
\* parker.park()
RunPark ==
    /\ cpal.run_pc = "playing"
    /\ CpalStep(IF cpal.token
                THEN [cpal EXCEPT !.run_pc = "returned", !.token = FALSE]
                ELSE [cpal EXCEPT !.run_pc = "parked"])
RunWake ==
    /\ cpal.run_pc = "parked"
    /\ cpal.token
    /\ CpalStep([cpal EXCEPT !.run_pc = "returned", !.token = FALSE])

\* The capture stream exists from its construction until run returns and
\* drops it; the output stream likewise
CaptureStreamRuns ==
    /\ cpal.input
    /\ cpal.run_pc \in {"input_playing", "input_parked", "build_output",
                        "playing", "parked"}
OutputStreamRuns == cpal.run_pc \in {"playing", "parked"}

\* The error callback of the capture stream
CaptureError ==
    /\ CaptureStreamRuns
    /\ ~cpal.capture_error
    /\ CpalStep([cpal EXCEPT !.capture_error = TRUE, !.input_token = TRUE])
\* The error callback of the output stream
PlaybackError ==
    /\ OutputStreamRuns
    /\ ~cpal.playback_error
    /\ CpalStep([cpal EXCEPT !.playback_error = TRUE, !.token = TRUE])

\* The device calls the input data callback with one period of samples
InputCallbackBegin ==
    /\ CaptureStreamRuns
    /\ cpal.input_cb.pc = "idle"
    /\ cpal.input_cb.calls < MaxInputCallbacks
    /\ CpalStep([cpal EXCEPT
           !.input_cb = [pc |-> "push",
                         data |-> [k \in 1 .. input_data_len |->
                                      cpal.captured + k],
                         calls |-> cpal.input_cb.calls + 1,
                         push_failed |-> FALSE],
           !.captured = @ + input_data_len])
\* (variant: a sample whose push fails is given up)
InputPushDropping ==
    /\ cpal.input_cb.pc = "push"
    /\ CpalStep(
         IF Len(cpal.rb) < rb_capacity
         THEN [cpal EXCEPT
                 !.rb = Append(@, Head(cpal.input_cb.data)),
                 !.pushed = Append(@, Head(cpal.input_cb.data)),
                 !.input_cb.data = Tail(@),
                 !.input_cb.push_failed = FALSE,
                 !.input_cb.pc = IF Len(cpal.input_cb.data) = 1
                                 THEN "unpark" ELSE "push"]
         ELSE [cpal EXCEPT
                 !.input_cb.data = Tail(@),
                 !.input_cb.push_failed = TRUE,
                 !.input_cb.pc = IF Len(cpal.input_cb.data) = 1
                                 THEN "unpark" ELSE "push"])
\* One push of `while input_rb_producer.push(sample.to_f32()).is_err() {}`:
\* it fails while the ring buffer is full and is then made again
InputPush ==
    /\ cpal.input_cb.pc = "push"
    /\ CpalStep(
         IF Len(cpal.rb) < rb_capacity
         THEN [cpal EXCEPT
                 !.rb = Append(@, Head(cpal.input_cb.data)),
                 !.pushed = Append(@, Head(cpal.input_cb.data)),
                 !.input_cb.data = Tail(@),
                 !.input_cb.push_failed = FALSE,
                 !.input_cb.pc = IF Len(cpal.input_cb.data) = 1
                                 THEN "unpark" ELSE "push"]
         ELSE [cpal EXCEPT !.input_cb.push_failed = TRUE])
\* input_unparker.unpark() at the end of the input data callback
InputUnpark ==
    /\ cpal.input_cb.pc = "unpark"
    /\ CpalStep([cpal EXCEPT !.input_cb.pc = "idle",
                             !.input_token = TRUE,
                             !.first_period_pushed = TRUE])

\* The device calls the output data callback.  Without an input device the
\* buffer is filled with silence.
OutputCallbackBegin ==
    /\ OutputStreamRuns
    /\ cpal.output_cb.pc = "idle"
    /\ cpal.output_cb.calls < MaxOutputCallbacks
    /\ CpalStep([cpal EXCEPT
           !.output_cb =
               [pc |-> IF cpal.input THEN "pop" ELSE "cb",
                buffer |-> IF cpal.input THEN << >>
                           ELSE [k \in 1 .. output_data_len |-> 0],
                calls |-> cpal.output_cb.calls + 1,
                pop_failed |-> FALSE,
                data |-> StaleData,
                result |-> TRUE]])
\* One pop of the loop that fills a sample of the buffer: it fails while the
\* ring buffer is empty and is then made again
OutputPop ==
    /\ cpal.output_cb.pc = "pop"
    /\ CpalStep(
         IF Len(cpal.rb) > 0
         THEN [cpal EXCEPT
                 !.rb = Tail(@),
                 !.popped = Append(@, Head(cpal.rb)),
                 !.output_cb.buffer = Append(@, Head(cpal.rb)),
                 !.output_cb.pop_failed = FALSE,
                 !.output_cb.pc =
                     IF Len(cpal.output_cb.buffer) + 1 = output_data_len
                     THEN "cb" ELSE "pop"]
         ELSE [cpal EXCEPT !.output_cb.pop_failed = TRUE])
\* (variant: cb returning false does not unpark)
OutputProcessWithoutUnpark ==
    /\ cpal.output_cb.pc = "cb"
    /\ \E result \in BOOLEAN :
         CpalStep(
           IF result
           THEN [cpal EXCEPT
                   !.output_cb.pc = "idle",
                   !.output_cb.result = TRUE,
                   !.output_cb.data = cpal.output_cb.buffer,
                   !.num_processed_samples = @ + cpal.period_size]
           ELSE [cpal EXCEPT
                   !.output_cb.pc = "idle",
                   !.output_cb.result = FALSE,
                   !.cb_false = TRUE])
\* The rest of the output data callback: cb is called; when it returns false
\* the callback unparks run and returns, otherwise the buffer is copied to
\* the output data and the position moves on by the buffer's samples
OutputProcess ==
    /\ cpal.output_cb.pc = "cb"
    /\ \E result \in BOOLEAN :
         CpalStep(
           IF result
           THEN [cpal EXCEPT
                   !.output_cb.pc = "idle",
                   !.output_cb.result = TRUE,
                   !.output_cb.data = cpal.output_cb.buffer,
                   !.num_processed_samples = @ + cpal.period_size]
           ELSE [cpal EXCEPT
                   !.output_cb.pc = "idle",
                   !.output_cb.result = FALSE,
                   !.cb_false = TRUE,
                   !.token = TRUE])

RunStep ==
    \/ RunStart
    \/ RunInputPark
    \/ RunInputWake
    \/ RunPlayOutput
    \/ RunPark
    \/ RunWake
InputCallbackStep == InputCallbackBegin \/ InputPush \/ InputUnpark
OutputCallbackStep == OutputCallbackBegin \/ OutputPop \/ OutputProcess

CpalNext ==
    \/ CpalNew
    \/ RunStep
    \/ CaptureError
    \/ PlaybackError
    \/ InputCallbackStep
    \/ OutputCallbackStep

\* ------------------------------------------------------------------------
\* #[derive(Enum)] (nih_plug_derive/src/enums.rs)
\* ------------------------------------------------------------------------
\* The identifiers an enum's variants are drawn from; an enum declares each
\* of its variants once
VariantIdents == {"A", "B", "C", "D"}
Declarations ==
    { variants \in UNION { [1 .. n -> VariantIdents] : n \in 0 .. MaxVariants } :
        \A j, k \in DOMAIN variants : variants[j] = variants[k] => j = k }

\* variants.iter().enumerate(): the variants with their indices from 0
enumerate(variants) ==
    [k \in DOMAIN variants |->
        [variant_idx |-> k - 1, variant_ident |-> variants[k]]]
\* The match arms `#struct_name::#variant_ident => #variant_idx,`
to_index_tokens(variants) ==
    [k \in DOMAIN variants |->
        [wildcard |-> FALSE,
         pattern |-> enumerate(variants)[k].variant_ident,
         value |-> enumerate(variants)[k].variant_idx]]
\* The match arms `#variant_idx => #struct_name::#variant_ident,`
from_index_tokens(variants) ==
    [k \in DOMAIN variants |->
        [wildcard |-> FALSE,
         pattern |-> enumerate(variants)[k].variant_idx,
         value |-> enumerate(variants)[k].variant_ident]]
\* (variant: the catch-all arm gives the last variant)
from_index_default_tokens_last(variants) ==
    IF Len(variants) = 0 THEN << >>
    ELSE << [wildcard |-> TRUE, pattern |-> 0,
             value |-> variants[Len(variants)]] >>
\* variants.first().map(..): the arm `_ => #struct_name::#variant_ident,` for
\* the first variant, no arm for an enum without variants
from_index_default_tokens(variants) ==
    IF Len(variants) = 0 THEN << >>
    ELSE << [wildcard |-> TRUE, pattern |-> 0, value |-> Head(variants)] >>

\* Whether a match arm takes the scrutinee: `_` takes everything
arm_matches(arm, scrutinee) ==
    IF arm.wildcard THEN TRUE ELSE arm.pattern = scrutinee
\* A match expression: the value of the first arm that takes the scrutinee
match(scrutinee, arms) ==
    arms[CHOOSE k \in DOMAIN arms :
             /\ arm_matches(arms[k], scrutinee)
             /\ \A j \in 1 .. k - 1 : ~arm_matches(arms[j], scrutinee)].value
\* A match on a usize is accepted by the compiler when it has a catch-all arm
exhaustive(arms) == \E k \in DOMAIN arms : arms[k].wildcard

\* The generated Enum::to_index and Enum::from_index
to_index(variants, self) == match(self, to_index_tokens(variants))
from_index(variants, index) ==
    match(index, from_index_tokens(variants)
                     \o from_index_default_tokens(variants))

NoEnum ==
    [variants |-> << >>, derived |-> FALSE, op |-> "none",
     argument |-> [index |-> 0, variant |-> "none"],
     result |-> [index |-> 0, variant |-> "none"]]

EnumStep(next) ==
    /\ enums' = next
    /\ UNCHANGED <<crossover_vars, cpal, iced>>

\* derive_enum on an enum declaration; the implementation exists when the
\* generated from_index is accepted
DeriveEnum ==
    /\ enums.op = "none"
    /\ \E variants \in Declarations :
         EnumStep([NoEnum EXCEPT
             !.variants = variants,
             !.derived = exhaustive(from_index_tokens(variants)
                                      \o from_index_default_tokens(variants)),
             !.op = "derive"])
CallToIndex ==
    /\ enums.derived
    /\ \E self \in {enums.variants[k] : k \in DOMAIN enums.variants} :
         EnumStep([enums EXCEPT
             !.op = "to_index",
             !.argument = [index |-> 0, variant |-> self],
             !.result = [index |-> to_index(enums.variants, self),
                         variant |-> "none"]])
CallFromIndex ==
    /\ enums.derived
    /\ \E index \in 0 .. MaxIndex :
         EnumStep([enums EXCEPT
             !.op = "from_index",
             !.argument = [index |-> index, variant |-> "none"],
             !.result = [index |-> 0,
                         variant |-> from_index(enums.variants, index)]])

EnumNext == DeriveEnum \/ CallToIndex \/ CallFromIndex

\* ------------------------------------------------------------------------
\* The iced editor (nih_plug_iced/src/lib.rs)
\* ------------------------------------------------------------------------
ScaleFactors == {1, 2}
\* Option<f32>
None == [some |-> FALSE, value |-> 0]
Some(value) == [some |-> TRUE, value |-> value]
\* The scale of a window opened while the editor's scaling factor is `factor`
WindowScalePolicy(factor) ==
    IF factor.some THEN [policy |-> "ScaleFactor", factor |-> factor.value]
    ELSE [policy |-> "SystemScaleFactor", factor |-> 0]
\* A window that has been closed
Closed == [policy |-> "closed", factor |-> 0]

\* IcedState::from_size and create_iced_editor: no window, no scaling factor
NoEditor ==
    [open |-> FALSE,            \* IcedState::open
     scaling_factor |-> None,   \* IcedEditor::scaling_factor
     windows |-> << >>,         \* per spawn() so far: Closed, or the scale
                                \* policy of the window its handle holds
     handles |-> {}]            \* the handles not dropped yet

IcedStep(next) ==
    /\ iced' = next
    /\ UNCHANGED <<crossover_vars, cpal, enums>>

\* IcedState::is_open
is_open == iced.open

\* Editor::set_scale_factor
set_scale_factor ==
    /\ Len(iced.windows) < MaxSpawns
    /\ \E factor \in ScaleFactors :
         /\ iced.scaling_factor # Some(factor)
         /\ IcedStep([iced EXCEPT !.scaling_factor = Some(factor)])
\* Editor::spawn: the window is opened, open is set and the handle returned
spawn ==
    /\ Len(iced.windows) < MaxSpawns
    /\ IcedStep([iced EXCEPT
           !.windows = Append(@, WindowScalePolicy(iced.scaling_factor)),
           !.handles = @ \cup {Len(iced.windows) + 1},
           !.open = TRUE])
\* Drop for IcedEditorHandle: open is cleared and the window closed
drop ==
    \E handle \in iced.handles :
        IcedStep([iced EXCEPT !.open = FALSE,
                              !.windows[handle] = Closed,
                              !.handles = @ \ {handle}])

IcedNext == set_scale_factor \/ spawn \/ drop

WrapperInit ==
    /\ cpal = NoCpal
    /\ enums = NoEnum
    /\ iced = NoEditor

Init == EngineInit /\ calls = 0 /\ PluginInit /\ WrapperInit

\* Crossover::update_filters: every smoother is advanced, then the crossover
\* of the selected type is updated; sample_rate is buffer_config.sample_rate
update_filters(sample_rate) ==
    \E next \in {[j \in DOMAIN smoothers |-> SmootherNext(smoothers[j])]} :
    \E crossover_frequencies \in
           {<<next[1].current, next[2].current,
              next[3].current, next[4].current>>} :
        /\ smoothers' = next
        /\ IF params.crossover_type = "LinkwitzRiley24"
           THEN /\ iir_update_bands' = params.num_bands
                /\ UNCHANGED engine_vars
           ELSE /\ Update(sample_rate, params.num_bands, crossover_frequencies)
                /\ UNCHANGED iir_update_bands

\* The callback of num_bands and of crossover_type: what
\* should_update_filters holds after it ran
callback_without_store(flag) == flag
callback(flag) == TRUE

\* The host sets the band count or the crossover type: the value is stored
\* and the parameter's callback runs
SetNumBands ==
    /\ HostCall
    /\ \E value \in BandCounts : params' = [params EXCEPT !.num_bands = value]
    /\ should_update_filters' = callback(should_update_filters)
    /\ UNCHANGED <<engine_vars, smoothers, sample_rate_cfg, latency_samples,
                   initializations, race, wrapper_vars, block, iir_update_bands>>

SetCrossoverType ==
    /\ HostCall
    /\ \E value \in CrossoverTypes :
           params' = [params EXCEPT !.crossover_type = value]
    /\ should_update_filters' = callback(should_update_filters)
    /\ UNCHANGED <<engine_vars, smoothers, sample_rate_cfg, latency_samples,
                   initializations, race, wrapper_vars, block, iir_update_bands>>

\* The host sets a crossover frequency: its smoother heads for the new value
FrequencyChanges == { <<1, 1000>>, <<3, 200>> }
SetCrossoverFrequency ==
    /\ HostCall
    /\ \E change \in FrequencyChanges :
           smoothers' = [smoothers EXCEPT
                           ![change[1]] = SmootherSetTarget(@, change[2])]
    /\ UNCHANGED <<engine_vars, params, should_update_filters, sample_rate_cfg,
                   latency_samples, initializations, race, wrapper_vars, block,
                   iir_update_bands>>

\* Plugin::initialize
Initialize ==
    /\ HostCall
    /\ \E sample_rate \in SampleRates :
        /\ sample_rate_cfg' = sample_rate
        /\ update_filters(sample_rate)
    /\ latency_samples' =
           IF params.crossover_type = "LinkwitzRiley24LinearPhase"
           THEN latency(mode) ELSE latency_samples
    /\ initializations' = initializations + 1
    /\ UNCHANGED <<params, should_update_filters, block, race, wrapper_vars>>

\* Plugin::reset
PluginReset ==
    /\ HostCall
    /\ Reset
    /\ UNCHANGED plugin_vars

\* (variant: the linear-phase branch does not report its latency)
BeginBlockWithoutReport ==
    /\ HostCall
    /\ sample_rate_cfg \in SampleRates
    /\ \E len \in 1 .. MaxBlockLen, main \in MainBuffers :
           /\ Len(main) = len
           /\ block' = [pc |-> "maybe_update", type |-> params.crossover_type,
                     left |-> len, main |-> main]
    /\ UNCHANGED <<engine_vars, params, smoothers, should_update_filters,
                   sample_rate_cfg, latency_samples, initializations, race, wrapper_vars,
                   iir_update_bands>>
\* Plugin::process up to the first sample: the crossover type is matched
\* once for the block and the linear-phase branch reports its latency
BeginBlock ==
    /\ HostCall
    /\ sample_rate_cfg \in SampleRates
    /\ \E len \in 1 .. MaxBlockLen, main \in MainBuffers :
           /\ Len(main) = len
           /\ block' = [pc |-> "maybe_update", type |-> params.crossover_type,
                     left |-> len, main |-> main]
    /\ latency_samples' =
           IF params.crossover_type = "LinkwitzRiley24LinearPhase"
           THEN latency(mode) ELSE latency_samples
    /\ UNCHANGED <<engine_vars, params, smoothers, should_update_filters,
                   sample_rate_cfg, initializations, race, wrapper_vars, iir_update_bands>>

\* (variant: the smoothers are not consulted)
maybe_update_filters_on_flag_only ==
    /\ block.pc = "maybe_update"
    /\ UNCHANGED calls
    /\ should_update_filters' = FALSE
    /\ IF should_update_filters
       THEN update_filters(sample_rate_cfg)
       ELSE UNCHANGED <<engine_vars, smoothers, iir_update_bands>>
    /\ block' = [block EXCEPT !.pc = "crossover"]
    /\ UNCHANGED <<params, sample_rate_cfg, latency_samples, initializations,
                   race, wrapper_vars>>
\* Crossover::maybe_update_filters, called for every sample
maybe_update_filters ==
    /\ block.pc = "maybe_update"
    /\ UNCHANGED calls
    /\ should_update_filters' = FALSE      \* compare_exchange(true, false)
    /\ IF \/ should_update_filters
          \/ \E j \in DOMAIN smoothers : is_smoothing(smoothers[j])
       THEN update_filters(sample_rate_cfg)
       ELSE UNCHANGED <<engine_vars, smoothers, iir_update_bands>>
    /\ block' = [block EXCEPT !.pc = "crossover"]
    /\ UNCHANGED <<params, sample_rate_cfg, latency_samples, initializations,
                   race, wrapper_vars>>

\* (variant: the main samples are silenced before the bands are computed)
CrossoverProcessOnSilence ==
    /\ block.pc = "crossover"
    /\ UNCHANGED calls
    /\ IF block.type = "LinkwitzRiley24LinearPhase"
       THEN Process(params.num_bands, Zero2)
       ELSE UNCHANGED engine_vars
    /\ block' = [block EXCEPT !.pc = "silence"]
    /\ UNCHANGED <<params, smoothers, should_update_filters, sample_rate_cfg,
                   latency_samples, initializations, race, wrapper_vars, iir_update_bands>>
\* The crossover of the block's type splits the frame's main samples
CrossoverProcess ==
    /\ block.pc = "crossover"
    /\ UNCHANGED calls
    /\ IF block.type = "LinkwitzRiley24LinearPhase"
       THEN Process(params.num_bands, block.main[FrameIndex])
       ELSE UNCHANGED engine_vars      \* IirCrossover::process
    /\ block' = [block EXCEPT !.pc = "silence"]
    /\ UNCHANGED <<params, smoothers, should_update_filters, sample_rate_cfg,
                   latency_samples, initializations, race, wrapper_vars, iir_update_bands>>

\* do_process clears the main samples and goes on to the next sample
SilenceMain ==
    /\ block.pc = "silence"
    /\ UNCHANGED calls
    /\ main_io' = Zero2
    /\ block' = IF block.left > 1
                THEN [block EXCEPT !.pc = "maybe_update", !.left = @ - 1,
                                   !.main[FrameIndex] = Zero2]
                ELSE [Idle EXCEPT !.main =
                                      [block.main EXCEPT ![FrameIndex] = Zero2]]
    /\ UNCHANGED <<mode, band_filters, band_outputs, history, last_call,
                   written, update_bands, pulses, design, params, smoothers,
                   should_update_filters, sample_rate_cfg, latency_samples,
                   initializations, race, wrapper_vars, iir_update_bands>>

\* ------------------------------------------------------------------------
\* Specifications
\* ------------------------------------------------------------------------
\* The engine under any calls, in any order, with any arguments
Call ==
    /\ calls < MaxCalls
    /\ calls' = calls + 1
    /\ UNCHANGED plugin_vars
CallUpdate ==
    /\ Call
    /\ \E arguments \in UpdateArguments, num_bands \in BandCounts :
           Update(arguments[1], num_bands, arguments[2])
CallProcess ==
    /\ Call
    /\ \E num_bands \in BandCounts, samples \in Samples :
           Process(num_bands, samples)
CallReset == Call /\ Reset

Next == CallUpdate \/ CallProcess \/ CallReset

Spec == Init /\ [][Next]_vars

\* One stream: the engine is reset or not, configured at most once before the
\* first sample, and then fed sample pairs with one band count.  The stream
\* is silent but for at most one non-zero pair, which arrives at the start,
\* at the centre tap's distance, or around the point where the 121-tap window
\* and the cursor pass the end of the ring buffer.
PulsePositions == {0, 8, 9, 60, 127, 128}
StreamReset ==
    /\ last_call.op = "new"
    /\ Reset
    /\ UNCHANGED <<calls, plugin_vars>>
StreamConfigure ==
    /\ last_call.op \in {"new", "reset"}
    /\ UNCHANGED <<calls, plugin_vars>>
    /\ \E arguments \in UpdateArguments, num_bands \in BandCounts :
           Update(arguments[1], num_bands, arguments[2])
StreamProcess ==
    /\ Len(history[0]) < MaxStream
    /\ UNCHANGED <<calls, plugin_vars>>
    /\ \E num_bands \in BandCounts, samples \in Samples :
        /\ update_bands # 0 => num_bands = update_bands
        /\ last_call.op = "process" => num_bands = last_call.num_bands
        /\ samples # Zero2 => pulses = 0 /\ Len(history[0]) \in PulsePositions
        /\ Process(num_bands, samples)

StreamNext == StreamReset \/ StreamConfigure \/ StreamProcess

StreamSpec == Init /\ [][StreamNext]_vars

\* Streams with resets: the engine is configured for two bands, then fed
\* sample pairs and reset at any time; `calls` counts the calls.  One pair of
\* the whole run is non-zero.
ReplayCall ==
    /\ calls < MaxReplayCalls
    /\ calls' = calls + 1
    /\ UNCHANGED plugin_vars
ReplayConfigure ==
    /\ last_call.op = "new"
    /\ ReplayCall
    /\ Update(48000, 2, Ascending)
ReplayProcess ==
    /\ update_bands # 0
    /\ ReplayCall
    /\ \E samples \in Samples :
        /\ samples # Zero2 => pulses = 0
        /\ Process(update_bands, samples)
ReplayReset ==
    /\ last_call.op = "process"
    /\ ReplayCall
    /\ Reset

ReplayNext == ReplayConfigure \/ ReplayProcess \/ ReplayReset

ReplaySpec == Init /\ [][ReplayNext]_vars

\* The designer at work on one (sample rate, frequency): the filtering
\* passes and the window, the normalisation, then the mirror loop one
\* iteration at a time
engine_but_design == <<mode, band_filters, band_outputs, main_io, history,
                       last_call, written, update_bands, pulses>>
DesignStart ==
    /\ design.stage = "idle"
    /\ \E sample_rate \in SampleRates, frequency \in Frequencies :
           design' = [design EXCEPT
               !.stage = "windowed",
               !.sample_rate = sample_rate,
               !.frequency = frequency,
               !.impulse_response =
                   Value(WindowedImpulseResponse(
                       BiquadCoefficients_lowpass(sample_rate, frequency)))]
    /\ UNCHANGED <<engine_but_design, calls, plugin_vars>>
DesignNormalize ==
    /\ design.stage = "windowed"
    /\ \E total \in {would_be_impulse_response_sum(design.impulse_response)} :
       \E normalized \in
              {[k \in TapIdx |-> PMulRecip(design.impulse_response[k], total)]} :
           design' = [design EXCEPT
               !.stage = "mirror",
               !.impulse_response = normalized,
               !.source_idx = CENTER_IDX + 1,
               !.scratch = normalized[CENTER_IDX - 1]]
    /\ UNCHANGED <<engine_but_design, calls, plugin_vars>>
DesignMirror ==
    /\ design.stage = "mirror"
    /\ design' = [design EXCEPT
           !.impulse_response[MirrorTarget(design.source_idx)] =
               design.impulse_response[design.source_idx],
           !.source_idx = @ + 1,
           !.stage = IF design.source_idx + 1 < FILTER_SIZE
                     THEN "mirror" ELSE "done"]
    /\ UNCHANGED <<engine_but_design, calls, plugin_vars>>

DesignNext == DesignStart \/ DesignNormalize \/ DesignMirror

DesignSpec == Init /\ [][DesignNext]_vars

\* Calls with any band count, in range or not, in a build with debug
\* assertions or in one without.  A panic ends the run.
AnyBandCounts == 0 .. NUM_BANDS + 1
ContractCall(debug_assertions) ==
    /\ calls < MaxContractCalls
    /\ calls' = calls + 1
    /\ IF last_call.op = "new" THEN TRUE
       ELSE /\ last_call.debug_assertions = debug_assertions
            /\ last_call.panicked = "no"
    /\ UNCHANGED plugin_vars
ContractUpdate ==
    \E debug_assertions \in BOOLEAN, num_bands \in AnyBandCounts :
        /\ ContractCall(debug_assertions)
        /\ \E r \in {FirCrossoverUpdateAnyBands(band_filters, 48000, num_bands,
                                                Ascending, debug_assertions)} :
               /\ band_filters' = r.band_filters
               /\ written' = r.written
               /\ update_bands' = num_bands
               /\ last_call' = [op |-> "update", num_bands |-> num_bands,
                                sample_rate |-> 48000,
                                frequencies |-> Ascending, samples |-> Zero2,
                                debug_assertions |-> debug_assertions,
                                asserted |-> r.asserted,
                                panicked |-> r.panicked]
        /\ UNCHANGED <<mode, band_outputs, main_io, history, pulses, design>>
ContractProcess ==
    \E debug_assertions \in BOOLEAN, num_bands \in AnyBandCounts :
        /\ ContractCall(debug_assertions)
        /\ \E r \in {FirCrossoverProcess(band_filters, band_outputs, num_bands,
                                         <<ONE, -2 * ONE>>)} :
               /\ band_filters' = r.band_filters
               /\ band_outputs' = r.band_outputs
               /\ main_io' = r.main_io
        /\ history' = [i \in BandIdx |->
                          IF i < num_bands
                          THEN Append(history[i], <<ONE, -2 * ONE>>)
                          ELSE history[i]]
        /\ pulses' = pulses + 1
        /\ last_call' = [op |-> "process", num_bands |-> num_bands,
                         sample_rate |-> 0, frequencies |-> << >>,
                         samples |-> <<ONE, -2 * ONE>>,
                         debug_assertions |-> debug_assertions,
                         asserted |-> process_assertions(debug_assertions,
                                                         num_bands),
                         panicked |-> "no"]
        /\ UNCHANGED <<mode, written, update_bands, design>>
ContractNext == ContractUpdate \/ ContractProcess
ContractSpec == Init /\ [][ContractNext]_vars

\* One stream with the crossovers changed on the way: the engine is
\* configured for some band count, fed sample pairs with that band count, and
\* configured again between two pairs with other arguments and the same band
\* count; no reset.  `calls` counts the update() calls.  One pair, the first
\* or the fourth, is non-zero.
RetunePulsePositions == {0, 3}
RetuneUpdate ==
    /\ last_call.op \in {"new", "process"}
    /\ calls < MaxRetunes
    /\ calls' = calls + 1
    /\ UNCHANGED plugin_vars
    /\ \E arguments \in UpdateArguments, num_bands \in BandCounts :
        /\ update_bands # 0 => num_bands = update_bands
        /\ band_filters[0].coefficients
               # LowPassKernel[arguments[1], arguments[2][1]]
        /\ Update(arguments[1], num_bands, arguments[2])
RetuneProcess ==
    /\ update_bands # 0
    /\ Len(history[0]) < MaxRetuneStream
    /\ UNCHANGED <<calls, plugin_vars>>
    /\ \E samples \in Samples :
        /\ samples # Zero2 =>
               pulses = 0 /\ Len(history[0]) \in RetunePulsePositions
        /\ Process(update_bands, samples)
RetuneNext == RetuneUpdate \/ RetuneProcess
RetuneSpec == Init /\ [][RetuneNext]_vars

\* The plugin with a second thread that sets the band count or the crossover
\* type at any time, also while a block is processed.  Each atomic operation
\* is one step: the store of the parameter's value, the callback's
\* store(true), the compare_exchange of maybe_update_filters, and
\* update_filters, which reads the parameters.
RaceBandCounts == {2, 3}
RaceInitialize == initializations = 0 /\ Initialize
RaceBeginBlock == calls < MaxRaceCalls /\ BeginBlock
RaceStoreValue ==
    /\ race.setter_pc = "idle"
    /\ sample_rate_cfg \in SampleRates
    /\ race.stores < MaxRaceStores
    /\ UNCHANGED calls
    /\ \/ \E value \in RaceBandCounts :
            /\ params' = [params EXCEPT !.num_bands = value]
            /\ race' = [race EXCEPT !.setter_pc = "stored",
                                    !.param = "num_bands", !.value = value,
                                    !.stores = @ + 1]
       \/ \E value \in CrossoverTypes :
            /\ params' = [params EXCEPT !.crossover_type = value]
            /\ race' = [race EXCEPT !.setter_pc = "stored",
                                    !.param = "crossover_type",
                                    !.value = value, !.stores = @ + 1]
    /\ UNCHANGED <<engine_vars, smoothers, should_update_filters,
                   sample_rate_cfg, latency_samples, initializations, block,
                   iir_update_bands, wrapper_vars>>
RaceCallback ==
    /\ race.setter_pc = "stored"
    /\ should_update_filters' = callback(should_update_filters)
    /\ race' = [race EXCEPT !.setter_pc = "idle", !.unserved = TRUE,
                            !.triggered = [param |-> race.param,
                                           value |-> race.value]]
    /\ UNCHANGED <<engine_vars, calls, params, smoothers, sample_rate_cfg,
                   latency_samples, initializations, block, iir_update_bands,
                   wrapper_vars>>
\* maybe_update_filters up to its condition: compare_exchange(true, false),
\* then the smoothers
RaceCompareExchange ==
    /\ block.pc = "maybe_update"
    /\ should_update_filters' = FALSE
    /\ block' = [block EXCEPT !.pc =
                    IF \/ should_update_filters
                       \/ \E j \in DOMAIN smoothers : is_smoothing(smoothers[j])
                    THEN "update_filters" ELSE "crossover"]
    /\ race' = [race EXCEPT !.due = race.unserved]
    /\ UNCHANGED <<engine_vars, calls, params, smoothers, sample_rate_cfg,
                   latency_samples, initializations, iir_update_bands,
                   wrapper_vars>>
\* maybe_update_filters from its condition on: update_filters
RaceUpdateFilters ==
    /\ block.pc = "update_filters"
    /\ update_filters(sample_rate_cfg)
    /\ block' = [block EXCEPT !.pc = "crossover"]
    /\ race' = [race EXCEPT !.unserved = FALSE, !.due = FALSE]
    /\ UNCHANGED <<calls, params, should_update_filters, sample_rate_cfg,
                   latency_samples, initializations, wrapper_vars>>
RaceNext ==
    \/ RaceInitialize
    \/ RaceBeginBlock
    \/ RaceStoreValue
    \/ RaceCallback
    \/ RaceCompareExchange
    \/ RaceUpdateFilters
    \/ CrossoverProcess
    \/ SilenceMain
RaceSpec == Init /\ [][RaceNext]_vars

\* update() on a new engine with any four crossover frequencies, in any order
\* and with repetitions, as the plugin passes its four frequency parameters
AnyFrequencies == [1 .. NUM_BANDS - 1 -> Frequencies]
AnyOrderUpdate ==
    /\ last_call.op = "new"
    /\ UNCHANGED <<calls, plugin_vars>>
    /\ \E sample_rate \in SampleRates, num_bands \in BandCounts,
          frequencies \in AnyFrequencies :
           Update(sample_rate, num_bands, frequencies)

AnyOrderSpec == Init /\ [][AnyOrderUpdate]_vars

\* The standalone backend from Cpal::new on
CpalSpec == Init /\ [][CpalNext]_vars

\* The thread in run and the threads of the two streams keep running, and
\* the capture device keeps delivering periods; errors and what cb returns
\* are up to the environment
CpalFairSpec ==
    /\ CpalSpec
    /\ WF_vars(CpalNew)
    /\ WF_vars(RunStep)
    /\ WF_vars(InputCallbackStep)
    /\ WF_vars(OutputPop)
    /\ WF_vars(OutputProcess)

\* An enum deriving Enum and calls on it
EnumSpec == Init /\ [][EnumNext]_vars

\* An IcedState with its editor: windows are spawned and handles dropped
IcedSpec == Init /\ [][IcedNext]_vars

\* The plugin under its host
PluginNext ==
    \/ SetNumBands
    \/ SetCrossoverType
    \/ SetCrossoverFrequency
    \/ Initialize
    \/ PluginReset
    \/ BeginBlock
    \/ maybe_update_filters
    \/ CrossoverProcess
    \/ SilenceMain

PluginSpec == Init /\ [][PluginNext]_vars

\* ------------------------------------------------------------------------
\* Properties
\* ------------------------------------------------------------------------
UnitImpulse == [k \in TapIdx |-> IF k = 60 THEN splat(ONE) ELSE Zero2]

\* The sum of the pairs in slots 0 .. n-1
RECURSIVE SlotSum(_, _)
SlotSum(slots, n) ==
    IF n = 0 THEN Zero2 ELSE PAdd(SlotSum(slots, n - 1), slots[n - 1])

\* The kernels of slots 0 .. n-1 added tap by tap
KernelSum(filters, n) ==
    [k \in TapIdx |->
        SlotSum([i \in BandIdx |-> filters[i].coefficients[k]], n)]

\* The input of the call d calls before the latest one; x lists the inputs
\* since the last reset, oldest first
Delayed(x, d) == IF Len(x) > d THEN x[Len(x) - d] ELSE Zero2

\* The direct-form sum of coefficients[k] * x[t - k] for k in lo .. hi
RECURSIVE DirectForm(_, _, _, _)
DirectForm(coefficients, x, lo, hi) ==
    IF lo > hi THEN Zero2
    ELSE IF lo = hi THEN PMul(coefficients[lo], Delayed(x, lo))
    ELSE LET mid == (lo + hi) \div 2
         IN  PAdd(DirectForm(coefficients, x, lo, mid),
                  DirectForm(coefficients, x, mid + 1, hi))

\* C1: after update(sample_rate, n, frequencies) the kernels of slots 0..n-1
\* add up, tap by tap, to 1 at index 60 and 0 at the other 120 indices.
C1_KernelsSumToUnitImpulse ==
    last_call.op = "update" =>
        \A sum \in {KernelSum(band_filters, last_call.num_bands)} :
            sum = UnitImpulse
C1_Witness ==
    /\ last_call.op = "update"
    /\ last_call.num_bands = 5
    /\ last_call.frequencies = Unordered
    /\ calls = 2
    /\ band_filters[2].coefficients[60] # Zero2

\* C2: on an engine configured by update() for n bands from the reset state,
\* the n band outputs of each process(n) call add up to the input of
\* latency() calls earlier, and to 0 during the first latency() calls.
C2_BandsSumToDelayedInput ==
    (last_call.op = "process" /\ update_bands # 0) =>
        SlotSum(band_outputs, last_call.num_bands)
            = Delayed(history[0], latency(mode))
C2_Witness ==
    /\ last_call.op = "process"
    /\ update_bands = 5
    /\ Delayed(history[0], 60) # Zero2
    /\ band_outputs[0] # Zero2
    /\ band_outputs[4] # Zero2

\* C3: each process call of a band filter returns the direct-form sum over
\* k in 0..120 of coefficients[k] times the input of k calls earlier (0 when
\* there were fewer calls since the reset), wherever the cursor stands.
C3_ProcessIsDirectForm ==
    last_call.op = "process" =>
        \A i \in BandIdx :
            i < last_call.num_bands =>
                band_outputs[i] = DirectForm(band_filters[i].coefficients,
                                             history[i], 0, FILTER_SIZE - 1)
\* the cursor has passed the end of the ring and the output is not zero
C3_Witness ==
    /\ last_call.op = "process"
    /\ Len(history[0]) > 128
    /\ band_filters[0].delay_buffer_next_idx = Len(history[0]) - 128
    /\ band_outputs[0] # Zero2
\* a non-zero input more than 120 calls back and nothing after it
C3_WitnessForgotten ==
    /\ last_call.op = "process"
    /\ update_bands # 0
    /\ \E t \in 1 .. Len(history[0]) :
           history[0][t] # Zero2 /\ Len(history[0]) - t > 120
    /\ band_outputs[0] = Zero2

\* C4: a newly constructed band filter delays its input by 60 calls: the
\* output is the input of 60 calls earlier, 0 in the first 60 calls.
C4_NewFilterIsDelay ==
    (last_call.op = "process" /\ update_bands = 0) =>
        \A i \in BandIdx :
            i < last_call.num_bands =>
                band_outputs[i] = Delayed(history[i], 60)
C4_Witness ==
    /\ last_call.op = "process"
    /\ update_bands = 0
    /\ last_call.num_bands = 5
    /\ Delayed(history[4], 60) # Zero2
    /\ band_outputs[4] = Delayed(history[4], 60)

\* C5: latency() is 60 in every state of the engine, whatever calls were made.
C5_LatencyIsSixty == latency(mode) = 60
C5_Witness ==
    /\ calls = 2
    /\ last_call.op = "process"
    /\ update_bands = 5
    /\ latency(mode) = 60

\* C6: update(sample_rate, n, frequencies) assigns the coefficients of the
\* slots 0..n-1 and of no other slot: slots n..4 keep their coefficients.
C6_UpdateWritesActiveSlots ==
    [][ last_call'.op = "update" =>
            /\ written' = 0 .. (last_call'.num_bands - 1)
            /\ \A i \in BandIdx :
                   i >= last_call'.num_bands =>
                       band_filters'[i].coefficients
                           = band_filters[i].coefficients ]_vars
\* after update(5) and update(2), slot 3 still holds a kernel of update(5)
C6_Witness ==
    /\ last_call.op = "update"
    /\ last_call.num_bands = 2
    /\ written = {0, 1}
    /\ band_filters[3].coefficients # FirCoefficientsDefault

\* C7: process(n, input, outputs) puts the result of band filter i into output
\* slot i for i in 0..n-1 and leaves slots n..4 and the input pair as they were.
C7_ProcessWritesActiveOutputs ==
    [][ last_call'.op = "process" =>
            /\ main_io' = last_call'.samples
            /\ \A i \in BandIdx :
                   band_outputs'[i] =
                       IF i < last_call'.num_bands
                       THEN FirFilterProcess(band_filters[i],
                                             last_call'.samples).result
                       ELSE band_outputs[i] ]_vars
C7_Witness ==
    /\ last_call.op = "process"
    /\ last_call.num_bands = 3
    /\ last_call.samples # Zero2
    /\ main_io = last_call.samples
    /\ band_outputs[2] # StaleOutputs[2]
    /\ band_outputs[3] = StaleOutputs[3]

C9_ResetClearsDelayLines ==
    last_call.op = "reset" =>
        \A i \in BandIdx :
            /\ band_filters[i].delay_buffer_next_idx = 0
            /\ \A j \in RingIdx : band_filters[i].delay_buffer[j] = Zero2
\* a reset after a non-zero pair went through
C9_Witness ==
    /\ last_call.op = "reset"
    /\ pulses > 0
    /\ band_filters[0].delay_buffer[0] = Zero2
    /\ band_filters[0].delay_buffer_next_idx = 0

\* C10: no process() and no reset() call changes the coefficients of any of
\* the five band filters; only update() does.
C10_OnlyUpdateChangesCoefficients ==
    [][ (\E i \in BandIdx :
            band_filters'[i].coefficients # band_filters[i].coefficients)
        => last_call'.op = "update" ]_vars
\* a reset of an engine whose kernels came from update()
C10_Witness ==
    /\ last_call.op = "reset"
    /\ update_bands = 4
    /\ band_filters[3].coefficients # FirCoefficientsDefault

\* C11: update() leaves the delay line and the cursor of every band filter
\* as they were; a delay line entry other than the one at the cursor changes
\* only on reset().
C11_UpdateKeepsDelayLines ==
    [][ /\ last_call'.op = "update" =>
            \A i \in BandIdx :
                /\ band_filters'[i].delay_buffer = band_filters[i].delay_buffer
                /\ band_filters'[i].delay_buffer_next_idx
                       = band_filters[i].delay_buffer_next_idx
        /\ (\E i \in BandIdx, j \in RingIdx :
               /\ j # band_filters[i].delay_buffer_next_idx
               /\ band_filters'[i].delay_buffer[j]
                      # band_filters[i].delay_buffer[j])
           => last_call'.op = "reset" ]_vars
\* an update() of an engine whose delay lines hold a non-zero pair
C11_Witness ==
    /\ last_call.op = "update"
    /\ pulses > 0
    /\ band_filters[0].delay_buffer[0] # Zero2
    /\ band_filters[0].delay_buffer_next_idx = 1

\* The filter with another past: it has processed 205 pairs <<1, 1>>, so its
\* delay line is full of them and its cursor stands at 205 mod 128 = 77
OtherPast(filter) ==
    [filter EXCEPT !.delay_buffer = [j \in RingIdx |-> splat(ONE)],
                   !.delay_buffer_next_idx = 77]

\* A reset of `filter` followed by process calls on the first k pairs of xs:
\* the filter after these calls and the result of the last one
RECURSIVE ReplayFrom(_, _, _)
ReplayFrom(filter, xs, k) ==
    IF k = 0 THEN [filter |-> FirFilterReset(filter), result |-> Zero2]
    ELSE CHOOSE r \in
             { FirFilterProcess(prev.filter, xs[k]) :
                 prev \in {ReplayFrom(filter, xs, k - 1)} } : TRUE

\* C12: with fixed coefficients, what a band filter returns for the inputs
\* since its last reset() is what it returns for the same inputs after another
\* reset(), taken from a state with a different past.
C12_ReplayAfterReset ==
    last_call.op = "process" =>
        \A i \in BandIdx :
            i < last_call.num_bands =>
                band_outputs[i]
                    = ReplayFrom(OtherPast(band_filters[i]), history[i],
                                 Len(history[i])).result
\* the non-zero pair went in before the reset, far enough back for a tap of
\* the kernel to meet its ring slot again after the reset
C12_Witness ==
    /\ last_call.op = "process"
    /\ pulses = 1
    /\ calls >= 20
    /\ Len(history[0]) \in 1 .. 3
    /\ \A t \in 1 .. Len(history[0]) : history[0][t] = Zero2
    /\ band_outputs[0] = Zero2

\* The sum of coefficients[k] * delay_buffer[(cursor - k) mod 128] for k in
\* lo .. hi: each tap looked up by its own index into the ring
RECURSIVE TapSum(_, _, _, _, _)
TapSum(coefficients, delay_buffer, cursor, lo, hi) ==
    IF lo > hi THEN Zero2
    ELSE IF lo = hi
         THEN PMul(coefficients[lo], delay_buffer[(cursor - lo + 128) % 128])
    ELSE LET mid == (lo + hi) \div 2
         IN  PAdd(TapSum(coefficients, delay_buffer, cursor, lo, mid),
                  TapSum(coefficients, delay_buffer, cursor, mid + 1, hi))

CursorInRange ==
    \A i \in BandIdx :
        /\ band_filters[i].delay_buffer_next_idx >= 0
        /\ band_filters[i].delay_buffer_next_idx < 128

\* C13: each process call of a band filter computes its output from the
\* delay line as it was before the call, then stores the input at the cursor
\* and sets the cursor to (cursor + 1) mod 128; the cursor is always in
\* 0 .. 127.
C13_StoreAtCursorAndAdvance ==
    /\ []CursorInRange
    /\ [][ last_call'.op = "process" =>
            \A i \in BandIdx :
                i < last_call'.num_bands =>
                    /\ band_outputs'[i] =
                           PAdd(PMul(band_filters[i].coefficients[0],
                                     last_call'.samples),
                                TapSum(band_filters[i].coefficients,
                                       band_filters[i].delay_buffer,
                                       band_filters[i].delay_buffer_next_idx,
                                       1, FILTER_SIZE - 1))
                    /\ band_filters'[i].delay_buffer =
                           [band_filters[i].delay_buffer EXCEPT
                              ![band_filters[i].delay_buffer_next_idx] =
                                  last_call'.samples]
                    /\ band_filters'[i].delay_buffer_next_idx =
                           (band_filters[i].delay_buffer_next_idx + 1) % 128
       ]_vars
\* the 128th call stored a non-zero pair in the last slot and the cursor is
\* back at 0
C13_Witness ==
    /\ last_call.op = "process"
    /\ Len(history[0]) = 128
    /\ band_filters[0].delay_buffer_next_idx = 0
    /\ band_filters[0].delay_buffer[127] = last_call.samples
    /\ last_call.samples # Zero2

\* C14: every kernel the designer returns is symmetric about the centre,
\* tap[i] = tap[120 - i]; the mirror loop copies the indices 61..120 onto the
\* indices 59..0, one each, so what the passes left at index 59 is replaced.
C14_KernelIsSymmetric ==
    /\ [](design.stage = "done" =>
            /\ \A i \in TapIdx :
                   design.impulse_response[i] = design.impulse_response[120 - i]
            /\ design.impulse_response
                   = LowPassKernel[design.sample_rate, design.frequency])
    /\ [][ design.stage = "mirror" =>
            \E target \in 0 .. 59 :
                /\ target = 59 - (design.source_idx - 61)
                /\ design'.impulse_response =
                       [design.impulse_response EXCEPT
                          ![target] = design.impulse_response[design.source_idx]]
         ]_vars
\* a finished kernel whose index 59 held another value before the mirror loop
C14_Witness ==
    /\ design.stage = "done"
    /\ design.scratch # Zero2
    /\ design.scratch # design.impulse_response[59]
    /\ design.impulse_response[59] = design.impulse_response[61]
    /\ design.impulse_response[8] # Zero2

\* C15: every kernel the designer returns sums to 1 over its 121 taps: the
\* divisor 2 * (sum of the windowed taps 60..120) - tap[60] is the sum of the
\* taps the mirrored kernel is made of, the centre once and index 59 not at
\* all.
C15_KernelSumsToOne ==
    /\ design.stage = "windowed" =>
           would_be_impulse_response_sum(design.impulse_response)
               = SumRange(MirrorFrom(design.impulse_response, 61), 0, 120)
    /\ design.stage = "done" =>
           SumRange(design.impulse_response, 0, 120) = splat(ONE)
\* a finished kernel of several taps; index 59 held a non-zero value when the
\* divisor was computed
C15_Witness ==
    /\ design.stage = "done"
    /\ design.frequency = 1000
    /\ design.scratch # Zero2
    /\ design.impulse_response[60] # splat(ONE)
    /\ design.impulse_response[61] # Zero2
    /\ SumRange(design.impulse_response, 0, 120) = splat(ONE)

\* Other values for the crossover frequencies after the first
OtherCrossovers ==
    { <<1000, 5000, 10000>>, <<200, 200, 200>>, <<10000, 5000, 200>> }

\* C16: after update(sample_rate, 2, frequencies) band 0 is the low-pass
\* kernel designed for frequencies[0] and band 1 is its spectral inversion
\* (every tap negated, 1 added at index 60); no other slot's kernel is
\* assigned, and the crossover frequencies after the first have no effect on
\* the result.
C16_TwoBands ==
    [][ (last_call'.op = "update" /\ last_call'.num_bands = 2) =>
          \E low \in {LowPassKernel[last_call'.sample_rate,
                                    last_call'.frequencies[1]]} :
            /\ band_filters'[0].coefficients = low
            /\ \A k \in TapIdx :
                   band_filters'[1].coefficients[k] =
                       IF k = 60 THEN PSub(splat(ONE), low[k])
                       ELSE PNeg(low[k])
            /\ written' = {0, 1}
            /\ \A i \in 2 .. NUM_BANDS - 1 :
                   band_filters'[i] = band_filters[i]
            /\ \A rest \in OtherCrossovers :
                   FirCrossoverUpdate(band_filters, last_call'.sample_rate, 2,
                                      <<last_call'.frequencies[1]>> \o rest)
                       .band_filters = band_filters'
      ]_vars
\* two bands configured after a configuration of more bands, whose kernel in
\* slot 2 is still there
C16_Witness ==
    /\ last_call.op = "update"
    /\ last_call.num_bands = 2
    /\ last_call.frequencies = Ascending
    /\ written = {0, 1}
    /\ band_filters[0].coefficients[61] # Zero2
    /\ band_filters[1].coefficients[61] = PNeg(band_filters[0].coefficients[61])
    /\ band_filters[2].coefficients[61] # Zero2

\* C17: update() and process() both check, under a debug assertion, that the
\* band count is at least 2 and at most 5: in a build with debug assertions
\* every call of either with a band count outside 2..5 reports a failed
\* assertion.
C17_BandCountAsserted ==
    (/\ last_call.op \in {"update", "process"}
     /\ last_call.debug_assertions
     /\ last_call.num_bands \notin 2 .. NUM_BANDS)
        => last_call.asserted

\* C18: whenever the plugin is initialized or begins to process a block while
\* the linear-phase crossover type is selected, it reports
\* fir_crossover.latency() to the host; in process() the report comes with
\* the step that begins the block, before any sample of the block is filtered.
C18_LatencyReported ==
    /\ [](block.type = "LinkwitzRiley24LinearPhase"
              => latency_samples = latency(mode))
    /\ [][ (/\ initializations' # initializations
            /\ params.crossover_type = "LinkwitzRiley24LinearPhase")
               => latency_samples' = latency(mode) ]_vars
    /\ [][ (/\ block.pc = "idle"
            /\ block'.pc # "idle"
            /\ params.crossover_type = "LinkwitzRiley24LinearPhase")
               => /\ latency_samples' = latency(mode)
                  /\ history' = history
                  /\ band_outputs' = band_outputs ]_vars
    /\ [][ history' # history /\ last_call'.op = "process"
               => latency_samples = latency(mode) ]_vars
\* a sample of a linear-phase block has been filtered; the plugin was
\* initialized once, with the other crossover type selected, so the report
\* came from process()
C18_Witness ==
    /\ block.pc = "silence"
    /\ block.type = "LinkwitzRiley24LinearPhase"
    /\ last_call.op = "process"
    /\ latency_samples = latency(mode)
    /\ initializations = 1
    /\ iir_update_bands # 0
    /\ calls = 3

\* Tap k of the accumulated response once bands 0..i are in it, and of band
\* i >= 1 as the difference of its low-pass kernel and the response before it
RECURSIVE AccumulatedTap(_, _, _, _)
AccumulatedTap(sample_rate, frequencies, i, k) ==
    IF i = 0 THEN LowPassKernel[sample_rate, frequencies[1]][k]
    ELSE CHOOSE sum \in
             { PAdd(before,
                    PSub(LowPassKernel[sample_rate, frequencies[i + 1]][k],
                         before)) :
                 before \in
                     {AccumulatedTap(sample_rate, frequencies, i - 1, k)} } :
             TRUE
BandPassTap(sample_rate, frequencies, i, k) ==
    PSub(LowPassKernel[sample_rate, frequencies[i + 1]][k],
         AccumulatedTap(sample_rate, frequencies, i - 1, k))

\* C19: for num_bands >= 3, update() makes band 0 the low-pass kernel of
\* frequencies[0]; each band i in 1..n-2, in ascending order, the low-pass
\* kernel of frequencies[i] minus the response accumulated so far, and adds
\* it to that response; and band n-1 the accumulated response negated with 1
\* added at index 60.  Slots 1..n-2, and no others, receive band-pass
\* kernels.
C19_ThreeOrMoreBands ==
    [][ (last_call'.op = "update" /\ last_call'.num_bands >= 3) =>
          \E n \in {last_call'.num_bands},
             sample_rate \in {last_call'.sample_rate},
             frequencies \in {last_call'.frequencies} :
            /\ band_filters'[0].coefficients =
                   LowPassKernel[sample_rate, frequencies[1]]
            /\ \A i \in 1 .. n - 2 : \A k \in TapIdx :
                   band_filters'[i].coefficients[k] =
                       BandPassTap(sample_rate, frequencies, i, k)
            /\ \A k \in TapIdx :
                   band_filters'[n - 1].coefficients[k] =
                       PAdd(PNeg(AccumulatedTap(sample_rate, frequencies,
                                                n - 2, k)),
                            IF k = 60 THEN splat(ONE) ELSE Zero2)
            /\ written' = 0 .. n - 1
            /\ \A i \in n .. NUM_BANDS - 1 :
                   band_filters'[i].coefficients = band_filters[i].coefficients
      ]_vars
\* five bands over ascending crossovers: three band-pass kernels, none of
\* them zero, and a high-pass kernel that is not the inversion of band 0
C19_Witness ==
    /\ last_call.op = "update"
    /\ last_call.num_bands = 5
    /\ last_call.frequencies = Ascending
    /\ written = 0 .. 4
    /\ \A i \in 1 .. 3 : band_filters[i].coefficients[60] # Zero2
    /\ band_filters[4].coefficients[60] #
           PSub(splat(ONE), band_filters[0].coefficients[60])

\* A slice lo..hi of an array of the given length is within bounds
SliceInBounds(lo, hi, length) == 0 <= lo /\ lo <= hi /\ hi <= length

\* C20: in FirFilter::process, for every cursor value in 0..127, the slice
\* ending at the cursor and the slice at the end of the buffer lie within the
\* 128-entry delay buffer, their coefficient slices within the 121-entry
\* coefficient array, no index computation falls below zero, and the two
\* loops together pair each of the coefficients 1..120 with one delay buffer
\* entry, no entry twice.
C20_SlicesInBounds ==
    \A i \in BandIdx :
        \E ix \in {ProcessIndices(band_filters[i].delay_buffer_next_idx)} :
            /\ band_filters[i].delay_buffer_next_idx \in 0 .. 127
            /\ \A field \in DOMAIN ix : ix[field] >= 0
            /\ SliceInBounds(ix.before_wraparound_start_idx,
                             ix.before_wraparound_end_idx, RING_BUFFER_SIZE)
            /\ SliceInBounds(ix.after_wraparound_begin_idx,
                             ix.after_wraparound_end_idx, RING_BUFFER_SIZE)
            /\ SliceInBounds(1, 1 + ix.num_before_wraparound, FILTER_SIZE)
            /\ SliceInBounds(1 + ix.num_before_wraparound, FILTER_SIZE,
                             FILTER_SIZE)
            /\ \E pairs \in {BeforePairs(ix) \cup AfterPairs(ix)} :
                   /\ {p[1] : p \in pairs} = 1 .. 120
                   /\ Cardinality(pairs) = 120
                   /\ Cardinality({p[2] : p \in pairs}) = 120
                   /\ {p[2] : p \in pairs} \subseteq RingIdx
                   /\ BeforePairs(ix) \cap AfterPairs(ix) = {}
\* the cursor has passed the end of the ring buffer and stands where both
\* slices are in use
C20_Witness ==
    /\ Len(history[0]) = 129
    /\ band_filters[0].delay_buffer_next_idx = 1
    /\ BeforePairs(ProcessIndices(1)) = {<<1, 0>>}
    /\ Cardinality(AfterPairs(ProcessIndices(1))) = 119

\* C21: after any sequence of update(), process() and reset() calls, with
\* the band count of process() changing from call to call or not, all band
\* filters active in the latest process(n, ...) call hold the same delay line
\* contents and the same cursor.
C21_ActiveFiltersInStep ==
    last_call.op = "process" =>
        \A i, j \in BandIdx :
            (i < last_call.num_bands /\ j < last_call.num_bands) =>
                /\ band_filters[i].delay_buffer = band_filters[j].delay_buffer
                /\ band_filters[i].delay_buffer_next_idx
                       = band_filters[j].delay_buffer_next_idx

\* C22: when update() is called between process() calls with other
\* frequencies and the same band count n, and no reset() is made, the n band
\* outputs of every process() call, before and after the update, add up to
\* the input of 60 calls earlier.
C22_SumSurvivesUpdate ==
    /\ []((last_call.op = "process" /\ update_bands \in BandCounts) =>
              SlotSum(band_outputs, update_bands) = Delayed(history[0], 60))
    /\ [][ last_call'.op = "update" =>
               \A i \in BandIdx :
                   band_filters'[i].delay_buffer = band_filters[i].delay_buffer
         ]_vars
\* the non-zero first pair comes out 60 calls later, after the crossovers
\* were changed twice while it was in the delay lines
C22_Witness ==
    /\ last_call.op = "process"
    /\ calls = 3
    /\ Len(history[0]) = 61
    /\ history[0][1] # Zero2
    /\ SlotSum(band_outputs, update_bands) = history[0][1]
    /\ band_outputs[0] # Zero2

\* C23: the kernels update() writes to slots 0..n-1 depend only on its
\* arguments, not on the coefficients or delay lines present before the
\* call: they are the kernels the same call writes on a new engine, and a
\* second call with the same arguments leaves them as the first did.
C23_UpdateDependsOnArguments ==
    [][ last_call'.op = "update" =>
          \E fresh \in
              {FirCrossoverUpdate(FirCrossoverNew(mode).band_filters,
                                  last_call'.sample_rate,
                                  last_call'.num_bands,
                                  last_call'.frequencies).band_filters} :
            /\ \A i \in BandIdx :
                   i < last_call'.num_bands =>
                       band_filters'[i].coefficients = fresh[i].coefficients
            /\ (/\ last_call.op = "update"
                /\ last_call.sample_rate = last_call'.sample_rate
                /\ last_call.num_bands = last_call'.num_bands
                /\ last_call.frequencies = last_call'.frequencies)
                   => band_filters' = band_filters
      ]_vars
\* update() on an engine that holds the kernels of an earlier update() with
\* other arguments and more bands
C23_Witness ==
    /\ last_call.op = "update"
    /\ calls = 2
    /\ last_call.num_bands = 3
    /\ last_call.frequencies = Unordered
    /\ band_filters[4].coefficients[61] # Zero2
    /\ band_filters[0].coefficients = LowPassKernel[48000, 1000]

\* Whether any of the four crossover frequency smoothers is still smoothing
AnySmoothing == \E j \in DOMAIN smoothers : is_smoothing(smoothers[j])

\* C24: maybe_update_filters calls update_filters if and only if
\* should_update_filters was true or one of the four smoothers is still
\* smoothing, and leaves the flag false; with the flag false and no smoother
\* active, processing a sample performs no update.
C24_UpdateOnlyWhenNeeded ==
    [][ block.pc = "maybe_update" =>
          /\ block'.pc = "crossover"
          /\ should_update_filters' = FALSE
          /\ IF should_update_filters \/ AnySmoothing
             THEN /\ smoothers' =
                         [j \in DOMAIN smoothers |-> SmootherNext(smoothers[j])]
                  /\ IF params.crossover_type = "LinkwitzRiley24LinearPhase"
                     THEN /\ last_call'.op = "update"
                          /\ last_call'.num_bands = params.num_bands
                          /\ last_call'.sample_rate = sample_rate_cfg
                          /\ update_bands' = params.num_bands
                     ELSE iir_update_bands' = params.num_bands
             ELSE /\ engine_vars' = engine_vars
                  /\ smoothers' = smoothers
                  /\ iir_update_bands' = iir_update_bands
      ]_vars
\* the second sample of a linear-phase block is about to be filtered and no
\* update was made for it: the engine's last call is still the process() of
\* the first sample
C24_Witness ==
    /\ block.pc = "crossover"
    /\ block.type = "LinkwitzRiley24LinearPhase"
    /\ last_call.op = "process"
    /\ ~should_update_filters
    /\ ~AnySmoothing
    /\ smoothers[1].current = 1000

C25_WitnessPending ==
    /\ block.pc = "silence"
    /\ block.left = 2
    /\ block.type = "LinkwitzRiley24LinearPhase"
    /\ race.unserved
    /\ race.triggered.param = "num_bands"
    /\ race.triggered.value = 3
    /\ should_update_filters
    /\ update_bands = 2
    /\ last_call.op = "process"
C26_BandsBeforeSilence ==
    /\ [](block.pc \in {"maybe_update", "crossover"} =>
              /\ block.main[FrameIndex] \in PluginSamples
              /\ \A i \in 1 .. FrameIndex - 1 : block.main[i] = Zero2)
    /\ [][ (block.pc = "crossover"
            /\ block.type = "LinkwitzRiley24LinearPhase") =>
               /\ last_call'.op = "process"
               /\ last_call'.samples = block.main[FrameIndex]
               /\ block'.main = block.main
               /\ \A i \in BandIdx :
                      band_outputs'[i] =
                          IF i < params.num_bands
                          THEN FirFilterProcess(band_filters[i],
                                                block.main[FrameIndex]).result
                          ELSE band_outputs[i] ]_vars
    /\ [][ block.pc = "silence" =>
               /\ block'.main = [block.main EXCEPT ![FrameIndex] = Zero2]
               /\ band_outputs' = band_outputs ]_vars
    /\ [](block.pc = "idle" =>
              \A i \in DOMAIN block.main : block.main[i] = Zero2)
\* a linear-phase block of two frames is over
C26_Witness ==
    /\ block.pc = "idle"
    /\ Len(block.main) = 2
    /\ block.main = <<Zero2, Zero2>>
    /\ last_call.op = "process"
    /\ last_call.samples \in PluginSamples
    /\ main_io = Zero2


\* C27: whatever the four frequencies passed to update(sample_rate, n,
\* frequencies) are, equal or out of ascending order included, every tap of
\* the kernels of slots 0..n-1 adds up to 1 at index 60 and to 0 elsewhere.
C27_SumForAnyFrequencies ==
    (last_call.op = "update" /\ last_call.frequencies \in AnyFrequencies) =>
        \A k \in TapIdx :
            SlotSum([i \in BandIdx |-> band_filters[i].coefficients[k]],
                    last_call.num_bands)
                = IF k = CENTER_IDX THEN splat(ONE) ELSE Zero2
\* five bands from descending frequencies with two equal ones: the band
\* between the equal crossovers has the zero kernel
C27_Witness ==
    /\ last_call.op = "update"
    /\ last_call.num_bands = 5
    /\ last_call.frequencies = <<10000, 5000, 5000, 200>>
    /\ band_filters[2].coefficients = [k \in TapIdx |-> Zero2]
    /\ band_filters[3].coefficients[CENTER_IDX] # Zero2


\* The accumulated response of update() after the loop iterations for the
\* crossovers 1 .. j of a call with the arguments of the latest call
AccumulatedAfter(j) ==
    BandPassLoop([filters |-> band_filters,
                  accumulated_ir |->
                      LowPassKernel[last_call.sample_rate,
                                    last_call.frequencies[1]],
                  written |-> {0}],
                 last_call.sample_rate, last_call.frequencies,
                 1, j + 1).accumulated_ir

\* C28: in update() the accumulated response is the low-pass kernel of the
\* crossover handled last after every loop iteration; so with n >= 3 bands,
\* band i (1 <= i <= n-2) is lowpass(frequencies[i]) - lowpass(frequencies[i-1])
\* and band n-1 is the unit impulse at index 60 - lowpass(frequencies[n-2]).
C28_BandsAreLowPassDifferences ==
    (last_call.op = "update" /\ last_call.num_bands >= 3) =>
        /\ \A j \in 1 .. last_call.num_bands - 2 :
               AccumulatedAfter(j) =
                   LowPassKernel[last_call.sample_rate,
                                 last_call.frequencies[j + 1]]
        /\ \A i \in 1 .. last_call.num_bands - 2 :
               band_filters[i].coefficients =
                   [k \in TapIdx |->
                       PSub(LowPassKernel[last_call.sample_rate,
                                          last_call.frequencies[i + 1]][k],
                            LowPassKernel[last_call.sample_rate,
                                          last_call.frequencies[i]][k])]
        /\ band_filters[last_call.num_bands - 1].coefficients =
               [k \in TapIdx |->
                   PSub(UnitImpulse[k],
                        LowPassKernel[last_call.sample_rate,
                            last_call.frequencies[last_call.num_bands - 1]][k])]
\* five bands from four different ascending frequencies: three band-pass
\* kernels, none of them zero, and a high-pass kernel
C28_Witness ==
    /\ last_call.op = "update"
    /\ last_call.num_bands = 5
    /\ last_call.frequencies = Ascending
    /\ \A i \in 1 .. 3 : band_filters[i].coefficients[CENTER_IDX] # Zero2
    /\ band_filters[4].coefficients # FirCoefficientsDefault


\* C29: the latency reported to the host is latency() = 60 while the
\* linear-phase crossover type is selected and 0 while the minimum-phase type
\* is selected, whatever type switches, initialize() calls and blocks came
\* before.  Stated where it is weakest: while a block is being processed,
\* after Plugin::process has matched the type and made its report.
C29_LatencyFollowsType ==
    block.pc # "idle" =>
        latency_samples =
            IF block.type = "LinkwitzRiley24LinearPhase"
            THEN latency(mode) ELSE 0


\* The pair v with the channel other than c replaced by x
WithOtherChannel(v, c, x) == IF c = 1 THEN <<v[1], x>> ELSE <<x, v[2]>>
\* The filter as it would stand in a run that gave the other channel other
\* inputs: its channel c is that of self, the other channel holds some
\* different value at every position of the delay line
OtherRun(self, c) ==
    [self EXCEPT !.delay_buffer =
        [idx \in DOMAIN self.delay_buffer |->
            WithOtherChannel(self.delay_buffer[idx], c, (idx + 1) * ONE)]]

\* C30: the channels of a pair never mix.  A process() call made on filters
\* and on an input pair that differ from the actual ones only in the other
\* channel returns the same channel c in every band output and leaves the
\* same channel c in every delay line, so two runs that differ only in the
\* other channel's inputs agree on channel c call after call.
C30_ChannelsDoNotMix ==
    [][ last_call'.op = "process" =>
          \A c \in {1, 2}, i \in 0 .. last_call'.num_bands - 1 :
              \A other \in {FirFilterProcess(
                               OtherRun(band_filters[i], c),
                               WithOtherChannel(last_call'.samples, c,
                                                3 * ONE))} :
                  /\ other.result[c] = band_outputs'[i][c]
                  /\ other.filter.delay_buffer_next_idx
                         = band_filters'[i].delay_buffer_next_idx
                  /\ \A idx \in DOMAIN other.filter.delay_buffer :
                         other.filter.delay_buffer[idx][c]
                             = band_filters'[i].delay_buffer[idx][c] ]_vars
\* the cursor has passed the end of the ring buffer and the first band
\* returns different non-zero values on the two channels
C30_Witness ==
    /\ last_call.op = "process"
    /\ Len(history[0]) > RING_BUFFER_SIZE
    /\ band_outputs[0][1] # 0
    /\ band_outputs[0][2] # 0
    /\ band_outputs[0][1] # band_outputs[0][2]


\* Cpal::run has started the output stream
OutputStarted == cpal.run_pc \in {"playing", "parked", "returned"}

\* C31: with an input device, run starts the output stream only after the
\* first input callback has pushed its period and unparked run; every push of
\* that first callback succeeds, the ring buffer holding output_channels *
\* period_size samples with no consumer running; and run does get to start
\* the output stream.
C31_OutputAfterFirstPeriod ==
    /\ []((cpal.input /\ OutputStarted) => cpal.first_period_pushed)
    /\ [](cpal.input_cb.calls = 1 => ~cpal.input_cb.push_failed)
    /\ (cpal.input /\ cpal.run_pc = "run") ~> OutputStarted


\* The samples 1 .. n in the order of their capture
CaptureOrder(n) == [k \in 1 .. n |-> k]

\* C32: however the input and the output callback interleave, the output
\* callback reads the captured samples in the order the input callback pushed
\* them, none lost and none twice: what was pushed is what was popped followed
\* by what the ring buffer holds, the pushes follow the order of capture, the
\* ring buffer never holds more than its capacity, and the buffer the output
\* callback is filling holds the samples popped last.
C32_FifoOrder ==
    /\ cpal.pushed \o cpal.input_cb.data = CaptureOrder(cpal.captured)
    /\ cpal.pushed = cpal.popped \o cpal.rb
    /\ cpal.popped = CaptureOrder(Len(cpal.popped))
    /\ Len(cpal.rb) <= rb_capacity
    /\ (cpal.input /\ cpal.output_cb.pc \in {"pop", "cb"}) =>
           /\ Len(cpal.popped)
                  = (cpal.output_cb.calls - 1) * output_data_len
                        + Len(cpal.output_cb.buffer)
           /\ cpal.output_cb.buffer =
                  [k \in 1 .. Len(cpal.output_cb.buffer) |->
                      (cpal.output_cb.calls - 1) * output_data_len + k]
\* the producer is spinning on a full ring buffer in its second callback
\* after the consumer has read three samples or more
C32_Witness ==
    /\ cpal.input_cb.push_failed
    /\ cpal.input_cb.calls = 2
    /\ Len(cpal.popped) >= 3
\* the consumer is spinning on an empty ring buffer in its second callback
C32_WitnessEmpty ==
    /\ cpal.output_cb.pop_failed
    /\ cpal.output_cb.calls = 2
    /\ Len(cpal.rb) = 0
    /\ Len(cpal.popped) >= 1


\* C33: run returns only after cb has returned false or a playback error was
\* reported, and once either has happened run does return, also when the
\* unpark comes before run has called park(); an output callback in which cb
\* returns false leaves the output data unwritten and the position of the
\* processed samples where it was.
C33_RunBlocksUntilAudioEnds ==
    /\ [](cpal.run_pc = "returned" =>
              cpal.cb_false \/ cpal.playback_error)
    /\ (cpal.cb_false \/ cpal.playback_error) ~> cpal.run_pc = "returned"
    /\ [][ (cpal.output_cb.pc = "cb" /\ cpal'.output_cb.pc = "idle"
            /\ ~cpal'.output_cb.result) =>
               /\ cpal'.output_cb.data = StaleData
               /\ cpal'.num_processed_samples = cpal.num_processed_samples
               /\ cpal'.token ]_vars
\* run has returned after cb returned false in the second output callback,
\* the first having written its buffer; no playback error
C33_Witness ==
    /\ cpal.run_pc = "returned"
    /\ cpal.cb_false
    /\ ~cpal.playback_error
    /\ cpal.output_cb.calls = 2
    /\ ~cpal.output_cb.result
    /\ cpal.output_cb.data = StaleData
    /\ cpal.num_processed_samples = cpal.period_size
\* cb has returned false and unparked before run has called park()
C33_WitnessEarlyUnpark ==
    /\ cpal.run_pc = "playing"
    /\ cpal.token
    /\ cpal.cb_false


\* The place of a variant in the declaration, counted from 0
DeclarationOrder(variants, v) ==
    (CHOOSE k \in DOMAIN variants : variants[k] = v) - 1

\* C34: for the derived Enum implementation to_index gives each variant its
\* position in declaration order, from_index(to_index(v)) = v for every
\* variant v, and from_index(i) for i not below the number of variants gives
\* the variant declared first.
C34_IndexRoundTrip ==
    enums.derived =>
        /\ \A k \in DOMAIN enums.variants :
               /\ to_index(enums.variants, enums.variants[k])
                      = DeclarationOrder(enums.variants, enums.variants[k])
               /\ from_index(enums.variants,
                             to_index(enums.variants, enums.variants[k]))
                      = enums.variants[k]
        /\ \A i \in Len(enums.variants) .. MaxIndex :
               from_index(enums.variants, i) = enums.variants[1]
        /\ enums.op = "to_index" =>
               enums.result.index =
                   DeclarationOrder(enums.variants, enums.argument.variant)
        /\ enums.op = "from_index" =>
               enums.result.variant =
                   IF enums.argument.index >= Len(enums.variants)
                   THEN enums.variants[1]
                   ELSE enums.variants[enums.argument.index + 1]
\* from_index(4) on an enum of three variants gave the first one
C34_Witness ==
    /\ enums.derived
    /\ enums.variants = <<"C", "A", "D">>
    /\ enums.op = "from_index"
    /\ enums.argument.index = 4
    /\ enums.result.variant = "C"
\* to_index of the last of three variants gave 2
C34_WitnessToIndex ==
    /\ enums.variants = <<"C", "A", "D">>
    /\ enums.op = "to_index"
    /\ enums.argument.variant = "D"
    /\ enums.result.index = 2

\* C35: is_open() is true exactly while an editor window created by spawn()
\* is open, that is while a handle returned by spawn() has not been dropped,
\* whatever spawn() calls and drops were made on the IcedState.
C35_OpenWhileWindowOpen ==
    is_open <=> (iced.handles # {})

====
